---- MODULE Spec2Model ----
(***************************************************************************)
(* Order-intake bot (src/bot.py), its order store (src/database.py) and    *)
(* the admin routes (src/backend/routers/orders.py, bot_config.py).        *)
(*                                                                         *)
(* The source files hold several revisions of the same function one after  *)
(* another.  The model follows one revision of each: the last complete     *)
(* definition in file order, except persist, read at bot.py:287.           *)
(* Two bodies carry lines of a neighbouring function: on_text is read up   *)
(* to line 767 (lines 769-770 continue the on_file revision of line 700),  *)
(* and finalize_order is read as its UPDATE statement, which both of its   *)
(* revisions contain (lines 211-212 repeat the body of get_bot_config).    *)
(* bot.py reads settings.orders_chat_id and settings.internal_api_key,     *)
(* which the Settings class of src/config.py does not declare; they are    *)
(* deployment settings here: the operations chat is empty or a chat id,    *)
(* and a request to the internal API carries the configured key or not.    *)
(*                                                                         *)
(* Strings are ASCII renderings of the source literals:                    *)
(*   "Photopolymer" = "Фотополимер", "Unknown" = "Не знаю",                *)
(*   "Nylon" = "Нейлон", "(?) Other material" = "🤔 Другой материал",      *)
(*   "(?) Other resin" = "🤔 Другая смола", "Not chosen" = "Не выбрано",   *)
(*   "none" = "нет", "Human" = "Человек", "Object" = "Предмет",            *)
(*   "Other" = "Другое",                                                   *)
(*   "Master model" = "Мастер-модель",                                     *)
(*   "Order sent" = "Заявка отправлена".                                   *)
(***************************************************************************)
EXTENDS Naturals, Sequences, FiniteSets

\* ------------------------------------------------------------------ bounds
MaxOrders == 1
MaxMessages == 2
MaxFiles == 1
MaxRun == 3
MaxKeyboards == 2
MaxNavKeyboards == 3
MaxDialogOrders == 2
MaxLimit == 2

\* ------------------------------------------------------------------ inputs
Users == {1}

\* Two Telegram users, each with an FSM context of their own.
TwoUsers == {1, 2}

NoOrder == 0
NoStep == ""
NoWait == ""

\* Free texts a user sends (Telegram text messages are never empty).
Texts == {"need 10 brackets, 5cm", "recycled ABS blend"}

\* Documents a user uploads, and the extension on_file computes from each name.
FileNames == {"bracket.STL", "notes.txt"}

\* The destinations the operations chat setting takes ("" = not configured).
ChatIds == {"", "ops"}

\* ------------------------------------------------------------------ store constants
ALLOWED_STATUSES == {"draft", "new", "submitted", "in_work", "done", "canceled"}

\* What an admin request may carry as its status ("" = no status in the body).
StatusInputs == ALLOWED_STATUSES \cup {"archived", ""}

\* The statuses the modelled admin sends.
AdminStatusInputs == {"in_work", "done", "archived", ""}

\* ------------------------------------------------------------------ keyboards
TechButtons == <<"FDM", "Photopolymer", "Unknown">>

ScanButtons == <<"Human", "Object", "Industrial object", "Other">>

IdeaButtons == <<"By photo/sketch", "Souvenir/Cup/Medal", "Master model", "Signs", "Other">>

AboutButtons == <<"eq", "projects", "contacts", "map">>

MaterialItems_fdm_for_all(tech) ==
    <<"PET-G", "PLA", "PET-G Carbon", "TPU", "Nylon", "(?) Other material">>

\* step_keyboard_for_print: the material buttons offered for a technology.
MaterialItems(tech) ==
    IF tech = "FDM"
    THEN <<"PET-G", "PLA", "PET-G Carbon", "TPU", "Nylon", "(?) Other material">>
    ELSE IF tech = "Photopolymer"
    THEN <<"Standard", "ABS-Like", "TPU-Like", "Nylon-Like", "(?) Other resin">>
    ELSE <<"Not chosen">>

\* value.startswith of the thinking-face emoji, on the values the buttons carry.
StartsWithThinking(v) ==
    v \in {"(?) Other material", "(?) Other resin"}

Range(s) == {s[i] : i \in 1..Len(s)}

\* The buttons the modelled user presses: a subset of each keyboard.
PressedTech == {"FDM", "Unknown"}
PressedMaterials == {"PLA", "(?) Other material", "Not chosen"}
PressedScan == {"Human"}
PressedIdea == {"Master model"}
PressedAbout == {"eq"}

\* Keyboards are named by the message that carried them; a button stays in
\* the chat, and can be pressed, after the flow has moved on.
KbMaterial(tech) ==
    IF tech = "FDM" THEN "kb_material_fdm"
    ELSE IF tech = "Photopolymer" THEN "kb_material_resin"
    ELSE "kb_material_skip"

KbOfMaterial(v) ==
    IF v \in Range(MaterialItems("FDM")) THEN "kb_material_fdm"
    ELSE IF v \in Range(MaterialItems("Photopolymer")) THEN "kb_material_resin"
    ELSE "kb_material_skip"

\* ------------------------------------------------------------------ payload
\* A payload is a Python dict: an insertion-ordered sequence of <<key, value>>.
EmptyPayload == <<>>

HasKey(p, k) == \E i \in 1..Len(p) : p[i][1] = k

Get(p, k, default) ==
    IF HasKey(p, k)
    THEN p[CHOOSE i \in 1..Len(p) : p[i][1] = k][2]
    ELSE default

\* payload[k] = v
SetKey(p, k, v) ==
    IF HasKey(p, k)
    THEN [i \in 1..Len(p) |-> IF p[i][1] = k THEN <<k, v>> ELSE p[i]]
    ELSE Append(p, <<k, v>>)

\* branch_map.get(branch, branch)
BranchLabel(b) ==
    IF b = "print" THEN "Rasschitat pechat"
    ELSE IF b = "scan" THEN "3D-skanirovanie"
    ELSE IF b = "idea" THEN "Net modeli / Hochu pridumat"
    ELSE IF b = "dialog" THEN "Dialog"
    ELSE b

FieldLabel_no_custom(k) ==
    IF k = "technology" THEN "Tekhnologiya"
    ELSE IF k = "material" THEN "Material"
    ELSE IF k = "scan_type" THEN "Tip skanirovaniya"
    ELSE IF k = "idea_type" THEN "Kategoriya"
    ELSE IF k = "description" THEN "Opisanie"
    ELSE IF k = "file" THEN "Fayl"
    ELSE k

\* field_map.get(key, key)
FieldLabel(k) ==
    IF k = "technology" THEN "Tekhnologiya"
    ELSE IF k = "material" THEN "Material"
    ELSE IF k = "material_custom" THEN "Drugoy material"
    ELSE IF k = "scan_type" THEN "Tip skanirovaniya"
    ELSE IF k = "idea_type" THEN "Kategoriya"
    ELSE IF k = "description" THEN "Opisanie"
    ELSE IF k = "file" THEN "Fayl"
    ELSE k

RECURSIVE SummaryLines(_)
SummaryLines(p) ==
    IF p = <<>> THEN <<>>
    ELSE IF Head(p)[1] = "branch" \/ Head(p)[2] = ""
         THEN SummaryLines(Tail(p))
         ELSE <<<<FieldLabel(Head(p)[1]), Head(p)[2]>>>> \o SummaryLines(Tail(p))

\* payload_summary: a header line, then one "label: value" line per populated
\* field in insertion order.  A summary is the sequence of its lines.
payload_summary(p) ==
    <<<<"Tip zayavki", BranchLabel(Get(p, "branch", ""))>>>> \o SummaryLines(p)

NoSummary == <<>>

\* ------------------------------------------------------------------ state
VARIABLES
    orders,      \* table orders: row id -> [user, branch, status, payload, summary]
    messages,    \* table order_messages, in insertion order
    files,       \* table order_files, in insertion order
    session,     \* FSM data of each user (MemoryStorage)
    shown,       \* the last message the bot sent to each user
    chat,        \* the keyboards of the latest bot messages in each user's chat
    ordersChat,  \* bot_config orders_chat_id
    opsLog,      \* sends to the operations chat
    limits,      \* what the modelled users do: keyboards they still press, orders they open
    botConfig,   \* table bot_config: its rows <<key, value>>, one per key
    reply,       \* the last answer of get_cfg or of the internal API
    scen,        \* progress of each user through scenario A
    run          \* forward / back counts of each user since main_menu

vars == <<orders, messages, files, session, shown, chat, ordersChat, opsLog, limits, botConfig, reply, scen, run>>

\* An empty bot_config table, and no answer yet.
NoConfig == {}
NoReply == [kind |-> "none"]

Cleared ==
    [order_id |-> NoOrder, payload |-> EmptyPayload, history |-> <<>>,
     current_step |-> NoStep, waiting_text |-> NoWait]

Screen(step, summary) == [step |-> step, summary |-> summary]

OrderIds == 1..Len(orders)

\* A keyboard is the set of its button groups.  Buttons of earlier messages
\* stay in the chat; the modelled user presses those of the latest
\* limits.keyboards keyboards.
SendKeyboard(keyboards, kb) ==
    SubSeq(<<kb>> \o keyboards, 1,
           IF Len(keyboards) + 1 > limits.keyboards THEN limits.keyboards
           ELSE Len(keyboards) + 1)

Buttons(u) == UNION {chat[u][i] : i \in 1..Len(chat[u])}

\* ------------------------------------------------------------------ database.py
\* json.dumps(payload, ensure_ascii=False) into the JSON column: the object
\* holds the dict's key/value pairs, not its insertion order.
json_dumps(p) == {<<p[i][1], p[i][2]>> : i \in 1..Len(p)}

\* JSON_OBJECT()
EmptyObject == {}

\* create_order: INSERT ... status 'draft', order_payload JSON_OBJECT(); the
\* new row's id is the next one.
create_order(ords, user, branch) ==
    Append(ords, [user |-> user, branch |-> branch, status |-> "draft",
                  payload |-> EmptyObject, summary |-> NoSummary])

update_order_payload_every_row(ords, id, payload, summary) ==
    [i \in 1..Len(ords) |->
        [ords[i] EXCEPT !.payload = json_dumps(payload), !.summary = summary]]

\* update_order_payload: UPDATE orders SET order_payload, summary WHERE id.
update_order_payload(ords, id, payload, summary) ==
    [i \in 1..Len(ords) |->
        IF i = id
        THEN [ords[i] EXCEPT !.payload = json_dumps(payload), !.summary = summary]
        ELSE ords[i]]

finalize_order_keep_status(ords, id, summary) ==
    [i \in 1..Len(ords) |->
        IF i = id THEN [ords[i] EXCEPT !.summary = summary] ELSE ords[i]]

finalize_order_flip(ords, id, summary) ==
    [i \in 1..Len(ords) |->
        IF i = id
        THEN [ords[i] EXCEPT
                !.status = IF ords[i].status = "new" THEN "submitted" ELSE "new",
                !.summary = summary]
        ELSE ords[i]]

\* finalize_order: UPDATE orders SET status='new', summary WHERE id.  (Its
\* except branch, status 'submitted', runs when that UPDATE raises; the
\* store of this specification does not fail.)
finalize_order(ords, id, summary) ==
    [i \in 1..Len(ords) |->
        IF i = id
        THEN [ords[i] EXCEPT !.status = "new", !.summary = summary]
        ELSE ords[i]]

update_order_status_unchecked(ords, id, status) ==
    [error |-> "",
     orders |-> [i \in 1..Len(ords) |->
                    IF i = id THEN [ords[i] EXCEPT !.status = status] ELSE ords[i]]]

\* update_order_status: ValueError for a status outside ALLOWED_STATUSES,
\* else UPDATE orders SET status WHERE id.
update_order_status(ords, id, status) ==
    IF status \notin ALLOWED_STATUSES
    THEN [error |-> "ValueError", orders |-> ords]
    ELSE [error |-> "",
          orders |-> [i \in 1..Len(ords) |->
                        IF i = id THEN [ords[i] EXCEPT !.status = status] ELSE ords[i]]]

\* get_order: the row, or None.
OrderExists(ords, id) == id \in 1..Len(ords)

ActiveOrderIds_any_status(ords, user) ==
    {i \in 1..Len(ords) : ords[i].user = user}

\* find_or_create_active_order, its SELECT: the user's rows with status
\* draft, new or in_work, ORDER BY id DESC LIMIT 1 (0 = no row).
ActiveOrderIds(ords, user) ==
    {i \in 1..Len(ords) :
        ords[i].user = user /\ ords[i].status \in {"draft", "new", "in_work"}}

MaxOf(S) == CHOOSE x \in S : \A y \in S : y <= x

FindActiveOrder(ords, user) ==
    IF ActiveOrderIds(ords, user) = {} THEN NoOrder ELSE MaxOf(ActiveOrderIds(ords, user))

\* add_order_message: INSERT INTO order_messages.
add_order_message(msgs, id, direction, text) ==
    Append(msgs, [order |-> id, direction |-> direction, text |-> text])

\* add_order_file: INSERT INTO order_files.
add_order_file(fs, id, name) ==
    Append(fs, [order |-> id, name |-> name])

\* list_order_files: the rows of one order.
list_order_files(fs, id) == {i \in 1..Len(fs) : fs[i].order = id}

\* ------------------------------------------------------------------ bot.py helpers
persist_nothing(ords, data) == ords

\* persist: no order_id, nothing; else the whole payload and its summary.
persist(ords, data) ==
    IF data.order_id = NoOrder
    THEN ords
    ELSE update_order_payload(ords, data.order_id, data.payload,
                              payload_summary(data.payload))

HistoryAfter_push_on_back(history, current, from_back) ==
    IF current # NoStep THEN Append(history, current) ELSE history

\* render_step: unless it is called by go_back, the step being left goes on
\* the history when there is one.
HistoryAfter(history, current, from_back) ==
    IF from_back THEN history
    ELSE IF current # NoStep THEN Append(history, current) ELSE history

\* The keyboard render_step sends for a step ("" = nothing is sent).
StepKeyboard(step) ==
    IF step = "print_tech" THEN "tech"
    ELSE IF step = "scan_type" THEN "scan"
    ELSE IF step = "idea_type" THEN "idea"
    ELSE IF step = "about" THEN "about"
    ELSE ""

FirstStep(branch) ==
    IF branch = "print" THEN "print_tech"
    ELSE IF branch = "scan" THEN "scan_type"
    ELSE "idea_type"

\* (doc.file_name or "").lower().split(".")[-1]
FileExt(name) ==
    IF name = "bracket.STL" THEN "stl"
    ELSE IF name = "notes.txt" THEN "txt"
    ELSE name

AllowedExt_any_document == {"stl", "3mf", "obj", "txt"}

\* on_file: the extensions it accepts.
AllowedExt == {"stl", "3mf", "obj"}

\* on_submit: the confirmation the user gets.
SubmitReply(chat_error) == IF chat_error THEN "submit_ok_warning" ELSE "submit_ok"

\* ------------------------------------------------------------------ observers
\* scen: how far the user's inputs since the last branch entry follow
\* scenario A (print, FDM, PLA, no file, a text d, submit).
ScenOff == [n |-> 0, d |-> ""]

ScenNext(sc, ev) ==
    IF ev = <<"menu", "print", "">> THEN [n |-> 1, d |-> ""]
    ELSE IF sc.n = 1 /\ ev = <<"set", "technology", "FDM">> THEN [n |-> 2, d |-> ""]
    ELSE IF sc.n = 2 /\ ev = <<"set", "material", "PLA">> THEN [n |-> 3, d |-> ""]
    ELSE IF sc.n = 3 /\ ev = <<"set", "file", "none">> THEN [n |-> 4, d |-> ""]
    ELSE IF sc.n = 4 /\ ev[1] = "text" THEN [n |-> 5, d |-> ev[2]]
    ELSE IF sc.n = 5 /\ ev = <<"submit", "", "">> THEN [n |-> 6, d |-> sc.d]
    ELSE ScenOff

\* run: forward transitions f, then back actions b, counted from main_menu;
\* ok is FALSE once the inputs are not "forwards, then backs" or f passes MaxRun.
RunFresh == [f |-> 0, b |-> 0, ok |-> TRUE]
RunLost == [f |-> 0, b |-> 0, ok |-> FALSE]

AtMainMenu(u) == session[u] = Cleared /\ shown[u].step = "main_menu"

RunForward(u) ==
    IF AtMainMenu(u) THEN [f |-> 1, b |-> 0, ok |-> TRUE]
    ELSE IF run[u].ok /\ run[u].b = 0 /\ run[u].f < MaxRun
         THEN [run[u] EXCEPT !.f = @ + 1]
         ELSE RunLost

RunBack(u) ==
    IF run[u].ok /\ run[u].b < run[u].f
    THEN [run[u] EXCEPT !.b = @ + 1]
    ELSE RunLost

Observe(u, sc, r) ==
    /\ scen' = [scen EXCEPT ![u] = sc]
    /\ run' = [run EXCEPT ![u] = r]

\* ------------------------------------------------------------------ bot.py flow
Init ==
    /\ orders = <<>>
    /\ messages = <<>>
    /\ files = <<>>
    /\ session = [u \in Users |-> Cleared]
    /\ shown = [u \in Users |-> Screen("none", NoSummary)]
    /\ chat = [u \in Users |-> <<>>]
    /\ ordersChat \in ChatIds
    /\ opsLog = <<>>
    /\ limits = [keyboards |-> MaxKeyboards, orders |-> MaxOrders]
    /\ botConfig = NoConfig
    /\ reply = NoReply
    /\ scen = [u \in Users |-> ScenOff]
    /\ run = [u \in Users |-> RunLost]

menu_kb_filtered ==
    {b \in {"print", "scan", "idea", "about"} :
        \A row \in botConfig : row[1] = "enabled_menu_" \o b => row[2] # <<"0">>}

\* menu_kb: the four menu:<branch> buttons, whatever bot_config holds.
menu_kb == {"print", "scan", "idea", "about"}

\* The menu:<branch> buttons in the user's chat.
MenuItems(u) == IF "menu" \in Buttons(u) THEN menu_kb ELSE {}

show_main_keep_session(u) ==
    /\ session' = session
    /\ shown' = [shown EXCEPT ![u] = Screen("main_menu", NoSummary)]
    /\ chat' = [chat EXCEPT ![u] = SendKeyboard(@, {"menu"})]

\* show_main: state.clear(), then the welcome text with menu_kb.
show_main(u) ==
    /\ session' = [session EXCEPT ![u] = Cleared]
    /\ shown' = [shown EXCEPT ![u] = Screen("main_menu", NoSummary)]
    /\ chat' = [chat EXCEPT ![u] = SendKeyboard(@, {"menu"})]

\* on_start: /start.
OnStart(u) ==
    /\ show_main(u)
    /\ Observe(u, ScenOff, RunFresh)
    /\ UNCHANGED <<orders, messages, files, ordersChat, opsLog, limits, botConfig, reply>>

\* render_step: history and current_step, then the step's message; a step
\* without a message of its own leaves the chat as it is.
render_step(u, data, step, from_back) ==
    /\ session' = [session EXCEPT ![u] =
            [data EXCEPT
                !.history = HistoryAfter(@, data.current_step, from_back),
                !.current_step = step]]
    /\ IF StepKeyboard(step) # ""
       THEN /\ shown' = [shown EXCEPT ![u] = Screen(step, NoSummary)]
            /\ chat' = [chat EXCEPT ![u] = SendKeyboard(@, {StepKeyboard(step), "nav_menu"})]
       ELSE UNCHANGED <<shown, chat>>

start_order_update_only(u, branch) ==
    [session[u] EXCEPT !.order_id = Len(orders) + 1,
                       !.payload = <<<<"branch", branch>>>>]

\* start_order: a new draft order, and the FSM data replaced.
start_order(u, branch) ==
    [order_id |-> Len(orders) + 1, payload |-> <<<<"branch", branch>>>>,
     history |-> <<>>, current_step |-> NoStep, waiting_text |-> NoWait]

OpensOrder_always(branch) == TRUE

\* on_menu: every branch but about starts an order.
OpensOrder(branch) == branch # "about"

\* on_menu: a menu:<branch> button.
OnMenu(u, branch) ==
    /\ branch \in MenuItems(u)
    /\ IF ~OpensOrder(branch)
       THEN /\ render_step(u, session[u], "about", FALSE)
            /\ UNCHANGED orders
       ELSE /\ Len(orders) < limits.orders
            /\ orders' = create_order(orders, u, branch)
            /\ render_step(u, start_order(u, branch), FirstStep(branch), FALSE)
    /\ Observe(u, ScenNext(scen[u], <<"menu", branch, "">>), RunForward(u))
    /\ UNCHANGED <<messages, files, ordersChat, opsLog, limits, botConfig, reply>>

\* on_about_item: an about:<item> button.
OnAboutItem(u, item) ==
    /\ "about" \in Buttons(u)
    /\ shown' = [shown EXCEPT ![u] = Screen("about_detail", NoSummary)]
    /\ chat' = [chat EXCEPT ![u] = SendKeyboard(@, {"nav_back", "nav_menu"})]
    /\ Observe(u, ScenOff, RunForward(u))
    /\ UNCHANGED <<orders, messages, files, session, ordersChat, opsLog, limits, botConfig, reply>>

\* The set:<key>:<value> buttons present in the user's chat.
SetInputs(u) ==
    {<<"technology", v>> : v \in IF "tech" \in Buttons(u) THEN PressedTech ELSE {}}
    \cup {<<"material", v>> : v \in {m \in PressedMaterials : KbOfMaterial(m) \in Buttons(u)}}
    \cup {<<"scan_type", v>> : v \in IF "scan" \in Buttons(u) THEN PressedScan ELSE {}}
    \cup {<<"idea_type", v>> : v \in IF "idea" \in Buttons(u) THEN PressedIdea ELSE {}}
    \cup {<<"file", v>> : v \in IF "file" \in Buttons(u) THEN {"none"} ELSE {}}

\* on_set: what follows the stored field.
SetWaiting(key, value, waiting) ==
    IF key = "material" /\ StartsWithThinking(value) THEN "other_material"
    ELSE IF key \in {"scan_type", "idea_type"} THEN "description"
    ELSE waiting

SetScreen(key, value, payload) ==
    IF key = "technology" THEN Screen("print_material", NoSummary)
    ELSE IF key = "material"
         THEN IF StartsWithThinking(value)
              THEN Screen("print_material_custom", NoSummary)
              ELSE Screen("attach_file", NoSummary)
    ELSE IF key \in {"scan_type", "idea_type"} THEN Screen("describe_task", NoSummary)
    ELSE Screen("result", payload_summary(payload))

SetKeyboard(key, value, payload) ==
    IF key = "technology"
    THEN {KbMaterial(Get(payload, "technology", "")), "nav_back", "nav_menu"}
    ELSE IF key = "material"
         THEN IF StartsWithThinking(value)
              THEN {"nav_back", "nav_menu"}
              ELSE {"file", "nav_back", "nav_menu"}
    ELSE IF key \in {"scan_type", "idea_type"} THEN {"nav_back", "nav_menu"}
    ELSE {"submit", "nav_menu"}

\* on_set: a set:<key>:<value> button.
OnSet(u, key, value) ==
    /\ <<key, value>> \in SetInputs(u)
    /\ LET payload == SetKey(session[u].payload, key, value)
           data == [session[u] EXCEPT !.payload = payload]
       IN /\ orders' = persist(orders, data)
          /\ session' = [session EXCEPT ![u] =
                [data EXCEPT !.waiting_text = SetWaiting(key, value, @)]]
          /\ shown' = [shown EXCEPT ![u] = SetScreen(key, value, payload)]
          /\ chat' = [chat EXCEPT ![u] = SendKeyboard(@, SetKeyboard(key, value, payload))]
    /\ Observe(u, ScenNext(scen[u], <<"set", key, value>>), RunForward(u))
    /\ UNCHANGED <<messages, files, ordersChat, opsLog, limits, botConfig, reply>>

\* on_text with no waiting_text: the message goes to the user's active order,
\* or to a new dialog order, and is acknowledged.
OnTextDialog(u, t) ==
    /\ session[u].waiting_text = NoWait
    /\ Len(messages) < MaxMessages
    /\ IF FindActiveOrder(orders, u) # NoOrder
       THEN /\ orders' = orders
            /\ messages' = add_order_message(messages, FindActiveOrder(orders, u), "in", t)
       ELSE /\ Len(orders) < limits.orders
            /\ orders' = create_order(orders, u, "dialog")
            /\ messages' = add_order_message(messages, Len(orders) + 1, "in", t)
    /\ shown' = [shown EXCEPT ![u] = Screen("ack", NoSummary)]
    /\ Observe(u, ScenNext(scen[u], <<"text", t, "">>), RunLost)
    /\ UNCHANGED <<files, session, chat, ordersChat, opsLog, limits, botConfig, reply>>

\* on_text with waiting_text set: the text fills the awaited field.
OnTextField(u, t) ==
    /\ session[u].waiting_text # NoWait
    /\ LET key == IF session[u].waiting_text = "other_material"
                  THEN "material_custom" ELSE "description"
           payload == SetKey(session[u].payload, key, t)
           data == [session[u] EXCEPT !.payload = payload, !.waiting_text = NoWait]
       IN /\ session' = [session EXCEPT ![u] = data]
          /\ orders' = persist(orders, data)
          /\ IF key = "material_custom"
             THEN /\ shown' = [shown EXCEPT ![u] = Screen("attach_file", NoSummary)]
                  /\ chat' = [chat EXCEPT ![u] = SendKeyboard(@, {"file", "nav_back", "nav_menu"})]
             ELSE /\ shown' = [shown EXCEPT ![u] =
                                Screen("result", payload_summary(payload))]
                  /\ chat' = [chat EXCEPT ![u] = SendKeyboard(@, {"submit", "nav_menu"})]
          /\ IF data.order_id # NoOrder
             THEN /\ Len(messages) < MaxMessages
                  /\ messages' = add_order_message(messages, data.order_id, "in", t)
             ELSE messages' = messages
    /\ Observe(u, ScenNext(scen[u], <<"text", t, "">>), RunForward(u))
    /\ UNCHANGED <<files, ordersChat, opsLog, limits, botConfig, reply>>

\* on_text: a text message.
OnText(u, t) ==
    /\ shown[u].step # "none"
    /\ \/ OnTextDialog(u, t)
       \/ OnTextField(u, t)

\* on_file: a document.
OnFile(u, name) ==
    /\ shown[u].step # "none"
    /\ IF session[u].order_id = NoOrder
       THEN /\ shown' = [shown EXCEPT ![u] = Screen("need_order", NoSummary)]
            /\ Observe(u, ScenOff, RunLost)
            /\ UNCHANGED <<orders, files, session, chat>>
       ELSE IF FileExt(name) \notin AllowedExt
       THEN /\ shown' = [shown EXCEPT ![u] = Screen("bad_extension", NoSummary)]
            /\ Observe(u, ScenOff, RunLost)
            /\ UNCHANGED <<orders, files, session, chat>>
       ELSE /\ Len(files) < MaxFiles
            /\ files' = add_order_file(files, session[u].order_id, name)
            /\ LET payload == SetKey(session[u].payload, "file", name)
                   data == [session[u] EXCEPT !.payload = payload]
               IN /\ session' = [session EXCEPT ![u] = data]
                  /\ orders' = persist(orders, data)
                  /\ shown' = [shown EXCEPT ![u] =
                                Screen("result", payload_summary(payload))]
            /\ chat' = [chat EXCEPT ![u] = SendKeyboard(@, {"submit", "nav_menu"})]
            /\ Observe(u, ScenOff, RunForward(u))
    /\ UNCHANGED <<messages, ordersChat, opsLog, limits, botConfig, reply>>

\* on_nav, nav:menu.
OnNavMenu(u) ==
    /\ "nav_menu" \in Buttons(u)
    /\ show_main(u)
    /\ Observe(u, ScenOff, RunFresh)
    /\ UNCHANGED <<orders, messages, files, ordersChat, opsLog, limits, botConfig, reply>>

\* go_back: main_menu on an empty history, else the popped step.
go_back(u) ==
    IF session[u].history = <<>>
    THEN show_main(u)
    ELSE LET history == session[u].history
             prev == history[Len(history)]
         IN render_step(u, [session[u] EXCEPT !.history = SubSeq(history, 1, Len(history) - 1)],
                        prev, TRUE)

\* on_nav, nav:back.
OnNavBack(u) ==
    /\ "nav_back" \in Buttons(u)
    /\ go_back(u)
    /\ Observe(u, ScenOff, RunBack(u))
    /\ UNCHANGED <<orders, messages, files, ordersChat, opsLog, limits, botConfig, reply>>

get_orders_chat_id_hardcoded == "ops"

\* get_orders_chat_id().strip(): the configured destination ("" = none).
get_orders_chat_id == ordersChat

\* send_order_to_chat: the order message, then one send per stored file; a
\* failure of the first send ends the dispatch.
send_order_to_chat(log, id, summary, fails) ==
    Append(log, [order |-> id, delivered |-> ~fails,
                 attachments |-> IF fails THEN 0
                                 ELSE Cardinality(list_order_files(files, id))])

StateAfterSubmit_kept(u) == session[u]

\* on_submit: state.clear() after the reply, with or without an order.
StateAfterSubmit(u) == Cleared

\* on_submit: the submit:order button.  fails: the send to the operations
\* chat raises.
OnSubmit(u, fails) ==
    /\ "submit" \in Buttons(u)
    /\ IF session[u].order_id = NoOrder
       THEN /\ ~fails
            /\ shown' = [shown EXCEPT ![u] = Screen("no_active_order", NoSummary)]
            /\ UNCHANGED <<orders, messages, opsLog>>
       ELSE LET id == session[u].order_id
                summary == payload_summary(session[u].payload)
            IN /\ Len(messages) < MaxMessages
               /\ orders' = finalize_order(orders, id, summary)
               /\ messages' = add_order_message(messages, id, "in", "Order sent")
               /\ IF get_orders_chat_id # ""
                  THEN opsLog' = send_order_to_chat(opsLog, id, summary, fails)
                  ELSE ~fails /\ opsLog' = opsLog
               /\ shown' = [shown EXCEPT ![u] = Screen(SubmitReply(fails), summary)]
    /\ chat' = [chat EXCEPT ![u] = SendKeyboard(@, {"menu"})]
    /\ session' = [session EXCEPT ![u] = StateAfterSubmit(u)]
    /\ Observe(u, ScenNext(scen[u], <<"submit", "", "">>), RunLost)
    /\ UNCHANGED <<files, ordersChat, limits, botConfig, reply>>

\* ------------------------------------------------------------------ store failures
\* on_menu when create_order raises: the except branch logs, and sends the
\* "could not open the section, try again" text with menu_kb.
OnMenuStoreFails(u, branch) ==
    /\ "menu" \in Buttons(u)
    /\ OpensOrder(branch)
    /\ shown' = [shown EXCEPT ![u] = Screen("open_failed", NoSummary)]
    /\ chat' = [chat EXCEPT ![u] = SendKeyboard(@, {"menu"})]
    /\ Observe(u, ScenOff, RunLost)
    /\ UNCHANGED <<orders, messages, files, session, ordersChat, opsLog, limits, botConfig, reply>>

\* on_set when update_order_payload raises inside persist: the payload is
\* already in the FSM data, and the handler ends with the exception, without
\* a message.
OnSetStoreFails(u, key, value) ==
    /\ <<key, value>> \in SetInputs(u)
    /\ session[u].order_id # NoOrder
    /\ session' = [session EXCEPT ![u].payload = SetKey(@, key, value)]
    /\ Observe(u, ScenOff, RunLost)
    /\ UNCHANGED <<orders, messages, files, shown, chat, ordersChat, opsLog, limits, botConfig, reply>>

\* on_submit when finalize_order or add_order_message raises: the except
\* branch logs, and sends text_submit_fail with menu_kb.
OnSubmitStoreFails(u, at) ==
    /\ "submit" \in Buttons(u)
    /\ session[u].order_id # NoOrder
    /\ orders' = IF at = "finalize" THEN orders
                 ELSE finalize_order(orders, session[u].order_id,
                                     payload_summary(session[u].payload))
    /\ shown' = [shown EXCEPT ![u] = Screen("submit_fail", NoSummary)]
    /\ chat' = [chat EXCEPT ![u] = SendKeyboard(@, {"menu"})]
    /\ Observe(u, ScenOff, RunLost)
    /\ UNCHANGED <<messages, files, session, ordersChat, opsLog, limits, botConfig, reply>>

\* ------------------------------------------------------------------ bot_config
\* Keys of bot_config the bot reads with get_cfg, values the admin stores
\* for them (update_bot_config stores "" for a null), and the defaults the
\* call sites pass.
ConfigKeys == {"text_submit_ok", "text_submit_fail", "welcome_menu_msg"}
ConfigValues == {"", "Thanks, we got it"}
ConfigDefaults == {"", "Spasibo! Vasha zayavka otpravlena"}

\* set_bot_config_many with one item: INSERT ... ON DUPLICATE KEY UPDATE.
set_bot_config(cfg, key, value) ==
    {row \in cfg : row[1] # key} \cup {<<key, value>>}

bot_cfg_ignores_failure(unavailable) == botConfig

\* bot_cfg: database.get_bot_config() as a dict, {} when it raises.
bot_cfg(unavailable) == IF unavailable THEN {} ELSE botConfig

\* dict.get(key, default): the value of the key when the dict has it.
dict_get(cfg, key, default) ==
    IF \E row \in cfg : row[1] = key
    THEN (CHOOSE row \in cfg : row[1] = key)[2]
    ELSE default

\* get_cfg: bot_cfg().get(key, default).
get_cfg(cfg, key, default) == dict_get(cfg, key, default)

\* backend/routers/bot_config.py update_bot_config: PUT / with one key.
UpdateBotConfig(key, value) ==
    /\ botConfig' = set_bot_config(botConfig, key, value)
    /\ UNCHANGED <<orders, messages, files, session, shown, chat, ordersChat, opsLog, limits, reply, scen, run>>

\* A call get_cfg(key, default) of the bot, and what it returns.
\* unavailable: database.get_bot_config raises.
GetCfg(key, default, unavailable) ==
    /\ reply' = [kind |-> "text", key |-> key, default |-> default,
                 unavailable |-> unavailable,
                 value |-> get_cfg(bot_cfg(unavailable), key, default)]
    /\ UNCHANGED <<orders, messages, files, session, shown, chat, ordersChat, opsLog, limits, botConfig, scen, run>>

\* Keys the photo and operations-chat resolvers read, the values stored for
\* them, and the values the deployment's settings give as defaults.
PhotoKeys == {"photo_main_menu", "placeholder_photo_path"}
PhotoRefs == {"", "AgACAgIAAx0"}
PlaceholderPaths == {"", "static/placeholder.jpg"}

\* photo_ref_for: the step's photo, else the stored placeholder, else the
\* settings' placeholder; an empty value counts as none.
photo_ref_for(cfg, step_key, placeholder) ==
    IF dict_get(cfg, step_key, "") # "" THEN dict_get(cfg, step_key, "")
    ELSE IF dict_get(cfg, "placeholder_photo_path", "") # ""
         THEN dict_get(cfg, "placeholder_photo_path", "")
         ELSE placeholder

\* get_orders_chat_id over a given bot_config: get_cfg("orders_chat_id",
\* settings.orders_chat_id).  In the flow its value is ordersChat.
orders_chat_id_of(cfg, setting) == get_cfg(cfg, "orders_chat_id", setting)

\* A call photo_ref_for(step_key) of the bot.
PhotoRefFor(step_key, placeholder, unavailable) ==
    /\ reply' = [kind |-> "photo", key |-> step_key, default |-> placeholder,
                 unavailable |-> unavailable,
                 value |-> photo_ref_for(bot_cfg(unavailable), step_key, placeholder)]
    /\ UNCHANGED <<orders, messages, files, session, shown, chat, ordersChat, opsLog, limits, botConfig, scen, run>>

\* A call get_orders_chat_id() of the bot.
GetOrdersChatId(setting, unavailable) ==
    /\ reply' = [kind |-> "orders_chat_id", key |-> "orders_chat_id", default |-> setting,
                 unavailable |-> unavailable,
                 value |-> orders_chat_id_of(bot_cfg(unavailable), setting)]
    /\ UNCHANGED <<orders, messages, files, session, shown, chat, ordersChat, opsLog, limits, botConfig, scen, run>>

\* ------------------------------------------------------------------ toggles
\* Toggle values are strings as sequences of characters.  Stored values of
\* a toggle key: update_bot_settings stores "1" or "0", update_bot_config
\* stores any string.
ToggleKeys == {"enabled_menu_print"}
ToggleValues ==
    {<<>>, <<"1">>, <<"0">>, <<"2">>,
     <<"t", "r", "u", "e">>, <<"T", "R", "U", "E">>, <<"T", "r", "u", "e">>,
     <<"y", "e", "s">>, <<"O", "n">>, <<"o", "n">>, <<"n", "o">>,
     <<"f", "a", "l", "s", "e">>, <<"o", "f", "f">>}

\* The upper-case letters of the values, each with its lower case.
UpperCase ==
    {<<"T", "t">>, <<"R", "r">>, <<"U", "u">>, <<"E", "e">>, <<"O", "o">>,
     <<"N", "n">>, <<"Y", "y">>, <<"S", "s">>}

char_lower(c) ==
    IF \E p \in UpperCase : p[1] = c
    THEN (CHOOSE p \in UpperCase : p[1] = c)[2]
    ELSE c

\* str.lower()
lower(v) == [i \in 1..Len(v) |-> char_lower(v[i])]

Truthy == {<<"1">>, <<"t", "r", "u", "e">>, <<"y", "e", "s">>, <<"o", "n">>}

_to_bool_case_sensitive(v, default) ==
    IF v = <<>> THEN default ELSE v \in Truthy

_to_bool_without_default(v, default) == lower(v) \in Truthy

\* _to_bool: the default for "" (and None, which no stored string is), else
\* whether the lower-cased value is one of "1", "true", "yes", "on".
_to_bool(v, default) ==
    IF v = <<>> THEN default ELSE lower(v) \in Truthy

\* get_bot_settings, for one toggle key: _to_bool(cfg.get(k, ""), True).
GetBotSettings(k) ==
    /\ reply' = [kind |-> "toggle", key |-> k, default |-> TRUE,
                 present |-> \E row \in botConfig : row[1] = k,
                 stored |-> dict_get(botConfig, k, <<>>),
                 value |-> _to_bool(dict_get(botConfig, k, <<>>), TRUE)]
    /\ UNCHANGED <<orders, messages, files, session, shown, chat, ordersChat, opsLog, limits, botConfig, scen, run>>

\* _to_bool applied to a stored value with either default.
ToBool(k, default) ==
    /\ reply' = [kind |-> "toggle", key |-> k, default |-> default,
                 present |-> \E row \in botConfig : row[1] = k,
                 stored |-> dict_get(botConfig, k, <<>>),
                 value |-> _to_bool(dict_get(botConfig, k, <<>>), default)]
    /\ UNCHANGED <<orders, messages, files, session, shown, chat, ordersChat, opsLog, limits, botConfig, scen, run>>

\* The enabled_menu_* toggle of a menu item, as get_bot_settings reads it.
MenuToggleKey(b) == "enabled_menu_" \o b
MenuToggleKeys == {MenuToggleKey(b) : b \in {"print", "scan", "idea", "about"}}
MenuToggleValues == {<<>>, <<"0">>, <<"1">>}
MenuEnabled(b) == _to_bool(dict_get(botConfig, MenuToggleKey(b), <<>>), TRUE)

\* ------------------------------------------------------------------ messages read back
\* created_at of the rows of order_messages: NOW() at each INSERT, so it
\* never decreases along the insertion order, and rows inserted within one
\* tick of the clock share it.
Timestamps(msgs) ==
    {ts \in [1..Len(msgs) -> 1..Len(msgs)] :
        \A i, j \in 1..Len(msgs) : i < j => ts[i] <= ts[j]}

\* list.reverse()
Reverse(q) == [i \in 1..Len(q) |-> q[Len(q) + 1 - i]]

list_order_messages_newest_first(msgs, ts, id, limit) ==
    LET Rows == {i \in 1..Len(msgs) : msgs[i].order = id}
        k == Cardinality(Rows)
        n == IF limit < k THEN limit ELSE k
        Sorted == {q \in [1..k -> Rows] :
                     /\ \A i, j \in 1..k : i # j => q[i] # q[j]
                     /\ \A j \in 1..k : j < k => ts[q[j]] >= ts[q[j + 1]]}
    IN {SubSeq(q, 1, n) : q \in Sorted}

\* list_order_messages: SELECT ... WHERE order_id ORDER BY created_at DESC
\* LIMIT, then reversed.  The rows are given by their ids; the results are
\* all the store may return, rows of equal created_at being in either order.
list_order_messages(msgs, ts, id, limit) ==
    LET Rows == {i \in 1..Len(msgs) : msgs[i].order = id}
        k == Cardinality(Rows)
        n == IF limit < k THEN limit ELSE k
        Sorted == {q \in [1..k -> Rows] :
                     /\ \A i, j \in 1..k : i # j => q[i] # q[j]
                     /\ \A j \in 1..k : j < k => ts[q[j]] >= ts[q[j + 1]]}
    IN {Reverse(SubSeq(q, 1, n)) : q \in Sorted}

\* A call list_order_messages(id, limit) (orders.py, GET /orders/{id}/messages).
ListOrderMessages(id, limit, ts, rows) ==
    /\ ts \in Timestamps(messages)
    /\ rows \in list_order_messages(messages, ts, id, limit)
    /\ reply' = [kind |-> "messages", order |-> id, limit |-> limit,
                 created_at |-> ts, rows |-> rows]
    /\ UNCHANGED <<orders, messages, files, session, shown, chat, ordersChat, opsLog, limits, botConfig, scen, run>>

\* ------------------------------------------------------------------ material catalog
\* step_keyboard_for_print: the set:material:<t> buttons for a payload, in
\* their order (the navigation row follows them).
step_keyboard_for_print(payload) == MaterialItems(Get(payload, "technology", ""))

\* Payloads of the flow: a branch, and the fields that are set ("" = not set).
WithField(p, k, v) == IF v = "" THEN p ELSE SetKey(p, k, v)

CatalogPayloads ==
    {WithField(WithField(WithField(WithField(<<<<"branch", b>>>>,
        "technology", t), "material", m), "file", f), "description", d) :
        b \in {"print", "scan"}, t \in {"", "FDM", "Photopolymer", "Unknown"},
        m \in {"", "PLA"}, f \in {"", "none"}, d \in {""} \cup Texts}

\* A call step_keyboard_for_print(payload).
StepKeyboardForPrint(payload) ==
    /\ reply' = [kind |-> "keyboard", payload |-> payload,
                 materials |-> step_keyboard_for_print(payload)]
    /\ UNCHANGED <<orders, messages, files, session, shown, chat, ordersChat, opsLog, limits, botConfig, scen, run>>

\* ------------------------------------------------------------------ unrecognized input
\* Callback data that no button of the bot carries: a branch that on_menu
\* has no first step for, a set: callback without a value, a set: callback
\* with a key on_set has no branch for.
UnknownBranches == {"dialog"}

MalformedSetData == {"set:technology"}

UnknownSetInputs == {<<"color", "red">>}

\* on_menu with an unknown branch: start_order has created the order and
\* replaced the FSM data when the lookup of the first step raises KeyError;
\* the except branch logs, and sends the "could not open the section, try
\* again" text with menu_kb.
OnMenuUnknown(u, branch) ==
    /\ branch \in UnknownBranches
    /\ Len(orders) < limits.orders
    /\ orders' = create_order(orders, u, branch)
    /\ session' = [session EXCEPT ![u] = start_order(u, branch)]
    /\ shown' = [shown EXCEPT ![u] = Screen("open_failed", NoSummary)]
    /\ chat' = [chat EXCEPT ![u] = SendKeyboard(@, {"menu"})]
    /\ reply' = [kind |-> "handled", handler |-> "on_menu", error |-> "KeyError"]
    /\ Observe(u, ScenOff, RunLost)
    /\ UNCHANGED <<messages, files, ordersChat, opsLog, limits, botConfig>>

\* on_set with fewer than three parts in the callback data: the unpacking
\* of cb.data.split(":", 2) raises ValueError, which nothing in on_set
\* catches; no message is sent.
OnSetMalformed(u, data) ==
    /\ data \in MalformedSetData
    /\ reply' = [kind |-> "unhandled", handler |-> "on_set", error |-> "ValueError"]
    /\ Observe(u, ScenOff, RunLost)
    /\ UNCHANGED <<orders, messages, files, session, shown, chat, ordersChat, opsLog, limits, botConfig>>

\* on_set with a key it has no branch for: the field is stored and
\* persisted, and the callback is answered "saved" without a message.
OnSetUnknownKey(u, key, value) ==
    /\ <<key, value>> \in UnknownSetInputs
    /\ LET payload == SetKey(session[u].payload, key, value)
           data == [session[u] EXCEPT !.payload = payload]
       IN /\ orders' = persist(orders, data)
          /\ session' = [session EXCEPT ![u] = data]
    /\ reply' = [kind |-> "answered", handler |-> "on_set", error |-> "none"]
    /\ Observe(u, ScenOff, RunLost)
    /\ UNCHANGED <<messages, files, shown, chat, ordersChat, opsLog, limits, botConfig>>

\* ------------------------------------------------------------------ concurrent calls
\* The two callers of find_or_create_active_order for one user: on_text
\* with no waiting_text, and internal_send_message without an order_id.
Callers == {"on_text", "internal_send_message"}

\* The calls in flight, kept in reply: where each caller is (idle, selected:
\* its SELECT has run, found: it has its order id, stored: its message is
\* stored), the row its SELECT returned, the order id it got; and whether
\* the user had an order in a non-terminal status when they began, and the
\* orders the calls have created.
TerminalStatuses == {"done", "canceled"}

CallsIdle ==
    [kind |-> "calls",
     open |-> FALSE,
     created |-> {},
     pc |-> [c \in Callers |-> "idle"],
     row |-> [c \in Callers |-> NoOrder],
     id |-> [c \in Callers |-> NoOrder]]

Running(calls) == {c \in Callers : calls.pc[c] \in {"selected", "found"}}

LoopIsFree_threads(calls, c) == TRUE

\* Both callers are coroutines of the one event loop asyncio.run(main())
\* drives, and call the blocking database functions without an await from
\* the SELECT to add_order_message: a caller runs only while no other one
\* is between those two.
LoopIsFree(calls, c) == Running(calls) \subseteq {c}

\* find_or_create_active_order, the SELECT.
FindSelect(c, u) ==
    /\ reply.kind = "calls"
    /\ reply.pc[c] = "idle"
    /\ LoopIsFree(reply, c)
    /\ reply' = [reply EXCEPT !.pc[c] = "selected",
                              !.row[c] = FindActiveOrder(orders, u)]
    /\ UNCHANGED <<orders, messages, files, session, shown, chat, ordersChat, opsLog, limits, botConfig, scen, run>>

\* find_or_create_active_order, after the SELECT: the row's id, or
\* create_order(user_id, ..., "dialog").
FindInsert(c, u) ==
    /\ reply.kind = "calls"
    /\ reply.pc[c] = "selected"
    /\ LoopIsFree(reply, c)
    /\ IF reply.row[c] # NoOrder
       THEN /\ orders' = orders
            /\ reply' = [reply EXCEPT !.pc[c] = "found", !.id[c] = reply.row[c]]
       ELSE /\ Len(orders) < limits.orders
            /\ orders' = create_order(orders, u, "dialog")
            /\ reply' = [reply EXCEPT !.pc[c] = "found", !.id[c] = Len(orders) + 1,
                                      !.created = @ \cup {Len(orders) + 1}]
    /\ UNCHANGED <<messages, files, session, shown, chat, ordersChat, opsLog, limits, botConfig, scen, run>>

\* add_order_message with the id the call returned: "in" for on_text,
\* "out" for internal_send_message.
StoreCallMessage(c, u, t) ==
    /\ reply.kind = "calls"
    /\ reply.pc[c] = "found"
    /\ LoopIsFree(reply, c)
    /\ Len(messages) < MaxMessages
    /\ messages' = add_order_message(messages, reply.id[c],
                                     IF c = "on_text" THEN "in" ELSE "out", t)
    /\ reply' = [reply EXCEPT !.pc[c] = "stored"]
    /\ UNCHANGED <<orders, files, session, shown, chat, ordersChat, opsLog, limits, botConfig, scen, run>>

\* ------------------------------------------------------------------ internal API
\* Request bodies of POST /internal/sendMessage: the text as sent, and
\* str.strip() of it.
PushTexts == {"", "  ", "your order is ready"}

strip(t) == IF t = "  " THEN "" ELSE t

\* web.json_response: the status, and the body's "ok" and "error".
Response(status, ok, error) ==
    [kind |-> "http", status |-> status, ok |-> ok, error |-> error]

ResponseAfterSendFailure_ok == Response(200, TRUE, "")

\* internal_send_message: bot.send_message raised; {"error": str(exc)}, 400.
ResponseAfterSendFailure == Response(400, FALSE, "str(exc)")

\* internal_send_message, after the send: the order is the body's order_id
\* or find_or_create_active_order of the user; then the out message.  An
\* exception of either call is logged only.  failsAt: the store call that
\* raises ("" when none does).
StoreAfterPush(u, text, order_id, failsAt) ==
    LET found == IF order_id # NoOrder THEN order_id ELSE FindActiveOrder(orders, u)
        raised == \/ failsAt = "add_order_message"
                  \/ failsAt = "find_or_create_active_order" /\ order_id = NoOrder
        created == order_id = NoOrder /\ found = NoOrder
                   /\ failsAt # "find_or_create_active_order"
        target == IF created THEN Len(orders) + 1 ELSE found
    IN [orders |-> IF created THEN create_order(orders, u, "dialog") ELSE orders,
        messages |-> IF raised THEN messages
                     ELSE add_order_message(messages, target, "out", text)]

\* internal_send_message: POST /internal/sendMessage.  authorized: the
\* X-Internal-Key header is the configured key; sendFails: bot.send_message
\* raises.
InternalSendMessage(authorized, json_ok, user_id, raw, order_id, sendFails, failsAt) ==
    LET text == strip(raw)
    IN /\ IF ~authorized
          THEN /\ reply' = Response(401, FALSE, "unauthorized")
               /\ UNCHANGED <<orders, messages, shown>>
          ELSE IF ~json_ok
          THEN /\ reply' = Response(400, FALSE, "bad json")
               /\ UNCHANGED <<orders, messages, shown>>
          ELSE IF user_id = 0 \/ text = ""
          THEN /\ reply' = Response(400, FALSE, "user_id and text are required")
               /\ UNCHANGED <<orders, messages, shown>>
          ELSE IF sendFails
          THEN /\ reply' = ResponseAfterSendFailure
               /\ UNCHANGED <<orders, messages, shown>>
          ELSE LET store == StoreAfterPush(user_id, text, order_id, failsAt)
               IN /\ Len(store.orders) <= limits.orders
                  /\ Len(store.messages) <= MaxMessages
                  /\ orders' = store.orders
                  /\ messages' = store.messages
                  /\ shown' = [shown EXCEPT ![user_id] = Screen("pushed", NoSummary)]
                  /\ reply' = Response(200, TRUE, "")
       /\ UNCHANGED <<files, session, chat, ordersChat, opsLog, limits, botConfig, scen, run>>

\* ------------------------------------------------------------------ admin API
\* orders.py update_order: PUT /orders/{id} with a status.  The response is
\* 404 for a missing order, 400 for a ValueError, else "updated"; a body
\* without a status updates nothing.
AdminUpdateOrder(id, status) ==
    /\ IF ~OrderExists(orders, id)
       THEN orders' = orders
       ELSE IF status = ""
       THEN orders' = orders
       ELSE LET r == update_order_status(orders, id, status)
            IN IF r.error # ""
               THEN orders' = orders
               ELSE orders' = update_order_status(r.orders, id, status).orders
    /\ UNCHANGED <<messages, files, session, shown, chat, ordersChat, opsLog, limits, botConfig, reply, scen, run>>

\* internal_send_message as the admin route calls it: the key is the
\* configured one, the body is JSON with user_id, text and order_id.  The
\* answer's status, whether the user was pushed, and the messages table.
PostSendMessage(msgs, user_id, raw, order_id, sendFails, storeFails) ==
    LET text == strip(raw)
    IN IF user_id = 0 \/ text = ""
       THEN [status |-> 400, pushes |-> 0, messages |-> msgs]
       ELSE IF sendFails
       THEN [status |-> 400, pushes |-> 0, messages |-> msgs]
       ELSE [status |-> 200, pushes |-> 1,
             messages |-> IF storeFails THEN msgs
                          ELSE add_order_message(msgs, order_id, "out", text)]

OutMessages(msgs, id) ==
    Cardinality({i \in 1..Len(msgs) : msgs[i].order = id /\ msgs[i].direction = "out"})

\* The answer of the admin route, with the pushes the request made and the
\* out messages it stored on the order.
AdminReply(id, status, pushes, msgs) ==
    [kind |-> "admin", order |-> id, status |-> status, pushes |-> pushes,
     found |-> OrderExists(orders, id),
     canceled |-> OrderExists(orders, id) /\ orders[id].status = "canceled",
     stored |-> OutMessages(msgs, id) - OutMessages(messages, id)]

\* orders.py send_message, after the first POST was answered below 400: the
\* canceled check again, then a second POST of the same body.
SecondPost(first, user_id, raw, id, sendFails, storeFails) ==
    PostSendMessage(first.messages, user_id, raw, id, sendFails, storeFails)

\* orders.py send_message: POST /orders/{id}/messages.  404 for a missing
\* order, 400 for a canceled one; then the POST to the bot's
\* /internal/sendMessage, 400 when it is answered 400 or above; then the
\* second POST, and 400 again or "sent".
AdminSendMessage(id, raw, sendFails, storeFails) ==
    /\ IF ~OrderExists(orders, id)
       THEN /\ reply' = AdminReply(id, 404, 0, messages)
            /\ UNCHANGED <<messages, shown>>
       ELSE IF orders[id].status = "canceled"
       THEN /\ reply' = AdminReply(id, 400, 0, messages)
            /\ UNCHANGED <<messages, shown>>
       ELSE LET user == orders[id].user
                first == PostSendMessage(messages, user, raw, id, sendFails[1], storeFails[1])
                second == SecondPost(first, user, raw, id, sendFails[2], storeFails[2])
            IN IF first.status >= 400
               THEN /\ reply' = AdminReply(id, 400, 0, messages)
                    /\ UNCHANGED <<messages, shown>>
               ELSE /\ Len(second.messages) <= MaxMessages
                    /\ messages' = second.messages
                    /\ shown' = [shown EXCEPT ![user] = Screen("pushed", NoSummary)]
                    /\ reply' = AdminReply(id, IF second.status >= 400 THEN 400 ELSE 200,
                                           first.pushes + second.pushes, second.messages)
    /\ UNCHANGED <<orders, files, session, chat, ordersChat, opsLog, limits, botConfig, scen, run>>

Next ==
    \/ \E u \in Users : OnStart(u)
    \/ \E u \in Users, b \in {"print", "scan", "idea", "about"} : OnMenu(u, b)
    \/ \E u \in Users, i \in PressedAbout : OnAboutItem(u, i)
    \/ \E u \in Users : \E kv \in SetInputs(u) : OnSet(u, kv[1], kv[2])
    \/ \E u \in Users, t \in Texts : OnText(u, t)
    \/ \E u \in Users, n \in FileNames : OnFile(u, n)
    \/ \E u \in Users : OnNavMenu(u)
    \/ \E u \in Users : OnNavBack(u)
    \/ \E u \in Users, fails \in BOOLEAN : OnSubmit(u, fails)
    \/ \E id \in 1..MaxOrders, s \in AdminStatusInputs : AdminUpdateOrder(id, s)

Spec == Init /\ [][Next]_vars

\* The navigation of the flow alone, with a longer window of keyboards: the
\* buttons of the last MaxNavKeyboards messages can be pressed.
InitNav ==
    /\ orders = <<>>
    /\ messages = <<>>
    /\ files = <<>>
    /\ session = [u \in Users |-> Cleared]
    /\ shown = [u \in Users |-> Screen("none", NoSummary)]
    /\ chat = [u \in Users |-> <<>>]
    /\ ordersChat \in ChatIds
    /\ opsLog = <<>>
    /\ limits = [keyboards |-> MaxNavKeyboards, orders |-> MaxOrders]
    /\ botConfig = NoConfig
    /\ reply = NoReply
    /\ scen = [u \in Users |-> ScenOff]
    /\ run = [u \in Users |-> RunLost]

NextNav ==
    \/ \E u \in Users : OnStart(u)
    \/ \E u \in Users, b \in {"print", "scan", "idea", "about"} : OnMenu(u, b)
    \/ \E u \in Users, i \in PressedAbout : OnAboutItem(u, i)
    \/ \E u \in Users : \E kv \in SetInputs(u) : OnSet(u, kv[1], kv[2])
    \/ \E u \in Users : OnNavMenu(u)
    \/ \E u \in Users : OnNavBack(u)

SpecNav == InitNav /\ [][NextNav]_vars

\* The flow over a store whose operations can raise; the buttons of the
\* latest message are pressed.
InitStoreFails ==
    /\ orders = <<>>
    /\ messages = <<>>
    /\ files = <<>>
    /\ session = [u \in Users |-> Cleared]
    /\ shown = [u \in Users |-> Screen("none", NoSummary)]
    /\ chat = [u \in Users |-> <<>>]
    /\ ordersChat \in ChatIds
    /\ opsLog = <<>>
    /\ limits = [keyboards |-> 1, orders |-> MaxDialogOrders]
    /\ botConfig = NoConfig
    /\ reply = NoReply
    /\ scen = [u \in Users |-> ScenOff]
    /\ run = [u \in Users |-> RunLost]

NextStoreFails ==
    \/ \E u \in Users : OnStart(u)
    \/ \E u \in Users, b \in {"print", "scan", "idea", "about"} : OnMenu(u, b)
    \/ \E u \in Users : \E kv \in SetInputs(u) : OnSet(u, kv[1], kv[2])
    \/ \E u \in Users, t \in Texts : OnText(u, t)
    \/ \E u \in Users : OnNavMenu(u)
    \/ \E u \in Users, fails \in BOOLEAN : OnSubmit(u, fails)
    \/ \E u \in Users, b \in {"print", "scan", "idea"} : OnMenuStoreFails(u, b)
    \/ \E u \in Users : \E kv \in SetInputs(u) : OnSetStoreFails(u, kv[1], kv[2])
    \/ \E u \in Users, at \in {"finalize", "add_order_message"} : OnSubmitStoreFails(u, at)

SpecStoreFails == InitStoreFails /\ [][NextStoreFails]_vars

\* The internal API next to the users' flow and the admin's status changes;
\* the buttons of the latest message are pressed.
InitInternal ==
    /\ orders = <<>>
    /\ messages = <<>>
    /\ files = <<>>
    /\ session = [u \in Users |-> Cleared]
    /\ shown = [u \in Users |-> Screen("none", NoSummary)]
    /\ chat = [u \in Users |-> <<>>]
    /\ ordersChat \in ChatIds
    /\ opsLog = <<>>
    /\ limits = [keyboards |-> 1, orders |-> MaxDialogOrders]
    /\ botConfig = NoConfig
    /\ reply = NoReply
    /\ scen = [u \in Users |-> ScenOff]
    /\ run = [u \in Users |-> RunLost]

NextInternal ==
    \/ \E u \in Users : OnStart(u)
    \/ \E u \in Users, b \in {"print", "scan", "idea", "about"} : OnMenu(u, b)
    \/ \E u \in Users : OnNavMenu(u)
    \/ \E id \in 1..MaxDialogOrders, s \in AdminStatusInputs : AdminUpdateOrder(id, s)
    \/ \E authorized, json_ok, sendFails \in BOOLEAN,
          user_id \in Users \cup {0}, raw \in PushTexts, order_id \in {NoOrder} \cup OrderIds,
          failsAt \in {"", "find_or_create_active_order", "add_order_message"} :
            InternalSendMessage(authorized, json_ok, user_id, raw, order_id, sendFails, failsAt)

SpecInternal == InitInternal /\ [][NextInternal]_vars

\* The admin edits bot_config while the bot reads texts from it.
InitConfig ==
    /\ orders = <<>>
    /\ messages = <<>>
    /\ files = <<>>
    /\ session = [u \in Users |-> Cleared]
    /\ shown = [u \in Users |-> Screen("none", NoSummary)]
    /\ chat = [u \in Users |-> <<>>]
    /\ ordersChat \in ChatIds
    /\ opsLog = <<>>
    /\ limits = [keyboards |-> 1, orders |-> MaxOrders]
    /\ botConfig = NoConfig
    /\ reply = NoReply
    /\ scen = [u \in Users |-> ScenOff]
    /\ run = [u \in Users |-> RunLost]

NextConfig ==
    \/ \E k \in ConfigKeys, v \in ConfigValues : UpdateBotConfig(k, v)
    \/ \E k \in ConfigKeys, d \in ConfigDefaults, unavailable \in BOOLEAN :
          GetCfg(k, d, unavailable)

SpecConfig == InitConfig /\ [][NextConfig]_vars

\* The bot resolves texts, photos and the operations chat while the admin
\* edits bot_config and the store is at times unreachable.
InitResolvers ==
    /\ orders = <<>>
    /\ messages = <<>>
    /\ files = <<>>
    /\ session = [u \in Users |-> Cleared]
    /\ shown = [u \in Users |-> Screen("none", NoSummary)]
    /\ chat = [u \in Users |-> <<>>]
    /\ ordersChat \in ChatIds
    /\ opsLog = <<>>
    /\ limits = [keyboards |-> 1, orders |-> MaxOrders]
    /\ botConfig = NoConfig
    /\ reply = NoReply
    /\ scen = [u \in Users |-> ScenOff]
    /\ run = [u \in Users |-> RunLost]

NextResolvers ==
    \/ \E v \in ConfigValues : UpdateBotConfig("text_submit_ok", v)
    \/ \E k \in PhotoKeys, v \in PhotoRefs : UpdateBotConfig(k, v)
    \/ \E v \in ChatIds : UpdateBotConfig("orders_chat_id", v)
    \/ \E d \in ConfigDefaults, unavailable \in BOOLEAN :
          GetCfg("text_submit_ok", d, unavailable)
    \/ \E p \in PlaceholderPaths, unavailable \in BOOLEAN :
          PhotoRefFor("photo_main_menu", p, unavailable)
    \/ \E c \in ChatIds, unavailable \in BOOLEAN : GetOrdersChatId(c, unavailable)

SpecResolvers == InitResolvers /\ [][NextResolvers]_vars

\* The admin stores toggle values and reads the settings back.
InitToggles ==
    /\ orders = <<>>
    /\ messages = <<>>
    /\ files = <<>>
    /\ session = [u \in Users |-> Cleared]
    /\ shown = [u \in Users |-> Screen("none", NoSummary)]
    /\ chat = [u \in Users |-> <<>>]
    /\ ordersChat \in ChatIds
    /\ opsLog = <<>>
    /\ limits = [keyboards |-> 1, orders |-> MaxOrders]
    /\ botConfig = NoConfig
    /\ reply = NoReply
    /\ scen = [u \in Users |-> ScenOff]
    /\ run = [u \in Users |-> RunLost]

NextToggles ==
    \/ \E k \in ToggleKeys, v \in ToggleValues : UpdateBotConfig(k, v)
    \/ \E k \in ToggleKeys : GetBotSettings(k)
    \/ \E k \in ToggleKeys, default \in BOOLEAN : ToBool(k, default)

SpecToggles == InitToggles /\ [][NextToggles]_vars

\* The admin switches the enabled_menu_* toggles while users open the main
\* menu and enter its items.
InitMenu ==
    /\ orders = <<>>
    /\ messages = <<>>
    /\ files = <<>>
    /\ session = [u \in Users |-> Cleared]
    /\ shown = [u \in Users |-> Screen("none", NoSummary)]
    /\ chat = [u \in Users |-> <<>>]
    /\ ordersChat \in ChatIds
    /\ opsLog = <<>>
    /\ limits = [keyboards |-> 1, orders |-> MaxOrders]
    /\ botConfig = NoConfig
    /\ reply = NoReply
    /\ scen = [u \in Users |-> ScenOff]
    /\ run = [u \in Users |-> RunLost]

NextMenu ==
    \/ \E k \in MenuToggleKeys, v \in MenuToggleValues : UpdateBotConfig(k, v)
    \/ \E u \in Users : OnStart(u)
    \/ \E u \in Users, b \in {"print", "scan", "idea", "about"} : OnMenu(u, b)
    \/ \E u \in Users : OnNavMenu(u)

SpecMenu == InitMenu /\ [][NextMenu]_vars

\* Users write to their orders, the admin changes statuses and reads the
\* messages of an order back.
InitMessages ==
    /\ orders = <<>>
    /\ messages = <<>>
    /\ files = <<>>
    /\ session = [u \in Users |-> Cleared]
    /\ shown = [u \in Users |-> Screen("none", NoSummary)]
    /\ chat = [u \in Users |-> <<>>]
    /\ ordersChat \in ChatIds
    /\ opsLog = <<>>
    /\ limits = [keyboards |-> 1, orders |-> MaxDialogOrders]
    /\ botConfig = NoConfig
    /\ reply = NoReply
    /\ scen = [u \in Users |-> ScenOff]
    /\ run = [u \in Users |-> RunLost]

NextMessages ==
    \/ \E u \in Users : OnStart(u)
    \/ \E u \in Users, t \in Texts : OnText(u, t)
    \/ \E id \in 1..MaxDialogOrders, st \in AdminStatusInputs : AdminUpdateOrder(id, st)
    \/ \E id \in 1..MaxDialogOrders, limit \in 1..MaxLimit :
          \E ts \in Timestamps(messages) :
            \E rows \in list_order_messages(messages, ts, id, limit) :
              ListOrderMessages(id, limit, ts, rows)

SpecMessages == InitMessages /\ [][NextMessages]_vars

\* Users of the scan and idea branches who press the buttons of the last
\* MaxNavKeyboards messages, the submit button of an earlier result among
\* them, over up to MaxDialogOrders orders.
InitStale ==
    /\ orders = <<>>
    /\ messages = <<>>
    /\ files = <<>>
    /\ session = [u \in Users |-> Cleared]
    /\ shown = [u \in Users |-> Screen("none", NoSummary)]
    /\ chat = [u \in Users |-> <<>>]
    /\ ordersChat \in ChatIds
    /\ opsLog = <<>>
    /\ limits = [keyboards |-> MaxNavKeyboards, orders |-> MaxDialogOrders]
    /\ botConfig = NoConfig
    /\ reply = NoReply
    /\ scen = [u \in Users |-> ScenOff]
    /\ run = [u \in Users |-> RunLost]

NextStale ==
    \/ \E u \in Users : OnStart(u)
    \/ \E u \in Users, b \in {"scan", "idea"} : OnMenu(u, b)
    \/ \E u \in Users : \E kv \in SetInputs(u) : OnSet(u, kv[1], kv[2])
    \/ \E u \in Users, t \in Texts : OnText(u, t)
    \/ \E u \in Users, fails \in BOOLEAN : OnSubmit(u, fails)

SpecStale == InitStale /\ [][NextStale]_vars

\* The material keyboard built for each payload.
InitCatalog ==
    /\ orders = <<>>
    /\ messages = <<>>
    /\ files = <<>>
    /\ session = [u \in Users |-> Cleared]
    /\ shown = [u \in Users |-> Screen("none", NoSummary)]
    /\ chat = [u \in Users |-> <<>>]
    /\ ordersChat \in ChatIds
    /\ opsLog = <<>>
    /\ limits = [keyboards |-> 1, orders |-> MaxOrders]
    /\ botConfig = NoConfig
    /\ reply = NoReply
    /\ scen = [u \in Users |-> ScenOff]
    /\ run = [u \in Users |-> RunLost]

NextCatalog == \E p \in CatalogPayloads : StepKeyboardForPrint(p)

SpecCatalog == InitCatalog /\ [][NextCatalog]_vars

\* Users who also send callback data the handlers do not recognize.
InitUnrecognized ==
    /\ orders = <<>>
    /\ messages = <<>>
    /\ files = <<>>
    /\ session = [u \in Users |-> Cleared]
    /\ shown = [u \in Users |-> Screen("none", NoSummary)]
    /\ chat = [u \in Users |-> <<>>]
    /\ ordersChat \in ChatIds
    /\ opsLog = <<>>
    /\ limits = [keyboards |-> 1, orders |-> MaxDialogOrders]
    /\ botConfig = NoConfig
    /\ reply = NoReply
    /\ scen = [u \in Users |-> ScenOff]
    /\ run = [u \in Users |-> RunLost]

NextUnrecognized ==
    \E u \in Users :
        \/ OnStart(u)
        \/ \E b \in {"print", "about"} : OnMenu(u, b)
        \/ \E kv \in SetInputs(u) : OnSet(u, kv[1], kv[2])
        \/ \E b \in UnknownBranches : OnMenuUnknown(u, b)
        \/ \E d \in MalformedSetData : OnSetMalformed(u, d)
        \/ \E kv \in UnknownSetInputs : OnSetUnknownKey(u, kv[1], kv[2])

SpecUnrecognized == InitUnrecognized /\ [][NextUnrecognized]_vars

\* Two users whose turns interleave: each opens a scan order, answers,
\* writes texts and submits.
InitTwoUsers ==
    /\ orders = <<>>
    /\ messages = <<>>
    /\ files = <<>>
    /\ session = [u \in TwoUsers |-> Cleared]
    /\ shown = [u \in TwoUsers |-> Screen("none", NoSummary)]
    /\ chat = [u \in TwoUsers |-> <<>>]
    /\ ordersChat \in ChatIds
    /\ opsLog = <<>>
    /\ limits = [keyboards |-> 1, orders |-> MaxDialogOrders]
    /\ botConfig = NoConfig
    /\ reply = NoReply
    /\ scen = [u \in TwoUsers |-> ScenOff]
    /\ run = [u \in TwoUsers |-> RunLost]

UserTurn(u) ==
    \/ OnStart(u)
    \/ OnMenu(u, "scan")
    \/ \E kv \in SetInputs(u) : OnSet(u, kv[1], kv[2])
    \/ \E t \in Texts : OnText(u, t)
    \/ OnSubmit(u, FALSE)

NextTwoUsers == \E u \in TwoUsers : UserTurn(u)

SpecTwoUsers == InitTwoUsers /\ [][NextTwoUsers]_vars

\* A free text of the user and a push without an order id, in flight
\* together; the user has no order, or one order in any status.
InitConcurrent ==
    /\ orders \in {<<>>} \cup {<<[create_order(<<>>, 1, b)[1] EXCEPT !.status = st]>> :
                                b \in {"print", "dialog"}, st \in ALLOWED_STATUSES}
    /\ messages = <<>>
    /\ files = <<>>
    /\ session = [u \in Users |-> Cleared]
    /\ shown = [u \in Users |-> Screen("main_menu", NoSummary)]
    /\ chat = [u \in Users |-> <<>>]
    /\ ordersChat \in ChatIds
    /\ opsLog = <<>>
    /\ limits = [keyboards |-> 1, orders |-> MaxDialogOrders + 1]
    /\ botConfig = NoConfig
    /\ reply = [CallsIdle EXCEPT !.open =
                    \E i \in 1..Len(orders) : orders[i].status \notin TerminalStatuses]
    /\ scen = [u \in Users |-> ScenOff]
    /\ run = [u \in Users |-> RunLost]

NextConcurrent ==
    \E c \in Callers, u \in Users :
        \/ FindSelect(c, u)
        \/ FindInsert(c, u)
        \/ \E t \in Texts : StoreCallMessage(c, u, t)

SpecConcurrent == InitConcurrent /\ [][NextConcurrent]_vars

\* The admin sends messages for orders that exist, are canceled, or are
\* missing.
InitAdmin ==
    /\ orders = <<>>
    /\ messages = <<>>
    /\ files = <<>>
    /\ session = [u \in Users |-> Cleared]
    /\ shown = [u \in Users |-> Screen("none", NoSummary)]
    /\ chat = [u \in Users |-> <<>>]
    /\ ordersChat \in ChatIds
    /\ opsLog = <<>>
    /\ limits = [keyboards |-> 1, orders |-> MaxDialogOrders]
    /\ botConfig = NoConfig
    /\ reply = NoReply
    /\ scen = [u \in Users |-> ScenOff]
    /\ run = [u \in Users |-> RunLost]

NextAdmin ==
    \/ \E u \in Users : OnStart(u)
    \/ \E u \in Users, b \in {"print", "scan"} : OnMenu(u, b)
    \/ \E id \in 1..MaxDialogOrders, st \in {"in_work", "canceled"} : AdminUpdateOrder(id, st)
    \/ \E id \in 1..(MaxDialogOrders + 1), raw \in PushTexts,
          sendFails \in [1..2 -> BOOLEAN], storeFails \in [1..2 -> BOOLEAN] :
            AdminSendMessage(id, raw, sendFails, storeFails)

SpecAdmin == InitAdmin /\ [][NextAdmin]_vars

\* A user who uploads documents at every point of the print branch.
InitFiles ==
    /\ orders = <<>>
    /\ messages = <<>>
    /\ files = <<>>
    /\ session = [u \in Users |-> Cleared]
    /\ shown = [u \in Users |-> Screen("none", NoSummary)]
    /\ chat = [u \in Users |-> <<>>]
    /\ ordersChat \in ChatIds
    /\ opsLog = <<>>
    /\ limits = [keyboards |-> 1, orders |-> MaxDialogOrders]
    /\ botConfig = NoConfig
    /\ reply = NoReply
    /\ scen = [u \in Users |-> ScenOff]
    /\ run = [u \in Users |-> RunLost]

NextFiles ==
    \E u \in Users :
        \/ OnStart(u)
        \/ OnMenu(u, "print")
        \/ \E kv \in SetInputs(u) : OnSet(u, kv[1], kv[2])
        \/ \E n \in FileNames : OnFile(u, n)
        \/ OnNavMenu(u)
        \/ OnSubmit(u, FALSE)

SpecFiles == InitFiles /\ [][NextFiles]_vars

\* Users who open up to MaxDialogOrders orders, write texts, and press the
\* buttons of the latest message only; the admin changes statuses.
InitDialog ==
    /\ orders = <<>>
    /\ messages = <<>>
    /\ files = <<>>
    /\ session = [u \in Users |-> Cleared]
    /\ shown = [u \in Users |-> Screen("none", NoSummary)]
    /\ chat = [u \in Users |-> <<>>]
    /\ ordersChat \in ChatIds
    /\ opsLog = <<>>
    /\ limits = [keyboards |-> 1, orders |-> MaxDialogOrders]
    /\ botConfig = NoConfig
    /\ reply = NoReply
    /\ scen = [u \in Users |-> ScenOff]
    /\ run = [u \in Users |-> RunLost]

NextDialog ==
    \/ \E u \in Users : OnStart(u)
    \/ \E u \in Users, b \in {"print", "scan", "idea", "about"} : OnMenu(u, b)
    \/ \E u \in Users : \E kv \in SetInputs(u) : OnSet(u, kv[1], kv[2])
    \/ \E u \in Users, t \in Texts : OnText(u, t)
    \/ \E u \in Users : OnNavMenu(u)
    \/ \E id \in 1..MaxDialogOrders, s \in AdminStatusInputs : AdminUpdateOrder(id, s)

SpecDialog == InitDialog /\ [][NextDialog]_vars

\* The navigation of users who open up to MaxDialogOrders orders.
InitBranches ==
    /\ orders = <<>>
    /\ messages = <<>>
    /\ files = <<>>
    /\ session = [u \in Users |-> Cleared]
    /\ shown = [u \in Users |-> Screen("none", NoSummary)]
    /\ chat = [u \in Users |-> <<>>]
    /\ ordersChat \in ChatIds
    /\ opsLog = <<>>
    /\ limits = [keyboards |-> MaxKeyboards, orders |-> MaxDialogOrders]
    /\ botConfig = NoConfig
    /\ reply = NoReply
    /\ scen = [u \in Users |-> ScenOff]
    /\ run = [u \in Users |-> RunLost]

SpecBranches == InitBranches /\ [][NextNav]_vars

\* ------------------------------------------------------------------ properties
HasLine(summary, label, value) == <<label, value>> \in Range(summary)

HasValue(summary, value) == \E i \in 1..Len(summary) : summary[i][2] = value

\* C1 (scenario A): a user who enters the print branch, picks FDM, picks
\* PLA, skips the file, sends the text d and submits ends with the order in
\* status new, a stored summary that contains PLA and d, and exactly one
\* send to the configured operations chat.
C1_ScenarioA ==
    [][\A u \in Users :
         (scen[u].n = 5 /\ scen'[u].n = 6 /\ session[u].order_id # NoOrder) =>
            LET id == session[u].order_id
            IN /\ orders'[id].status = "new"
               /\ HasValue(orders'[id].summary, "PLA")
               /\ HasValue(orders'[id].summary, scen[u].d)
               /\ ordersChat # "" =>
                    /\ Len(opsLog') = Len(opsLog) + 1
                    /\ opsLog'[Len(opsLog')].order = id]_vars

\* The transitions that set a payload field: a selection button, a text
\* consumed while a free-text field is awaited, an accepted upload.
SetsPayloadField(u) ==
    \/ \E kv \in SetInputs(u) : OnSet(u, kv[1], kv[2])
    \/ \E t \in Texts : shown[u].step # "none" /\ OnTextField(u, t)
    \/ \E n \in FileNames :
         /\ session[u].order_id # NoOrder
         /\ FileExt(n) \in AllowedExt
         /\ OnFile(u, n)

\* C2: after every transition that sets a payload field, the payload stored
\* for the session's order is the session's payload.
C2_StoredPayloadIsSessionPayload ==
    [][\A u \in Users :
         (SetsPayloadField(u) /\ session'[u].order_id # NoOrder) =>
            orders'[session'[u].order_id].payload = json_dumps(session'[u].payload)]_vars

C2_witness ==
    \E u \in Users :
        /\ session[u].order_id # NoOrder
        /\ HasKey(session[u].payload, "material")
        /\ orders[session[u].order_id].payload = json_dumps(session[u].payload)

C4_FinalizeOnlyFromDraft ==
    [][\A u \in Users, fails \in BOOLEAN :
         (/\ session[u].order_id # NoOrder
          /\ orders[session[u].order_id].status \in {"new", "in_work", "done", "canceled"}
          /\ OnSubmit(u, fails)) =>
            orders'[session[u].order_id].status = orders[session[u].order_id].status]_vars

\* C5: the status of an order never moves to an earlier status of the chain
\* draft, new, in_work, done, and an order that is canceled or done never
\* changes status again.
C5_StatusNeverMovesBack ==
    [][LET Chain == <<"draft", "new", "in_work", "done">>
           Rank(status) == CHOOSE i \in 1..Len(Chain) : Chain[i] = status
       IN \A id \in 1..Len(orders) :
            /\ (orders[id].status \in Range(Chain) /\ orders'[id].status \in Range(Chain)) =>
                  Rank(orders'[id].status) >= Rank(orders[id].status)
            /\ orders[id].status \in {"canceled", "done"} =>
                  orders'[id].status = orders[id].status]_vars

SummariesAtHand ==
    {payload_summary(session[u].payload) : u \in Users}
    \cup {orders[id].summary : id \in OrderIds}

C8_BackUndoesForward ==
    \A u \in Users :
        (run[u].ok /\ run[u].f >= 1 /\ run[u].b = run[u].f) =>
            /\ shown[u].step = "main_menu"
            /\ session[u].history = <<>>

C8_witness ==
    \E u \in Users :
        /\ run[u].ok
        /\ run[u].f = MaxRun
        /\ run[u].b = MaxRun
        /\ shown[u].step = "main_menu"

\* The user came from main_menu into the print branch and chose a technology.
AtMaterialStep(u) ==
    /\ run[u] = [f |-> 2, b |-> 0, ok |-> TRUE]
    /\ Get(session[u].payload, "branch", "") = "print"
    /\ HasKey(session[u].payload, "technology")
    /\ shown[u].step = "print_material"

\* C9: from the material step of a print order entered from main_menu, back
\* shows the technology step, and a second back shows main_menu.
C9_BackFromMaterialStep ==
    [][\A u \in Users :
         /\ (AtMaterialStep(u) /\ OnNavBack(u)) => shown'[u].step = "print_tech"
         /\ (run[u] = [f |-> 2, b |-> 1, ok |-> TRUE] /\ OnNavBack(u)) =>
               shown'[u].step = "main_menu"]_vars

\* The user of a print order with technology FDM chose "other material" and is
\* asked for its name.
AwaitsCustomMaterial(u) ==
    /\ session[u].order_id # NoOrder
    /\ Get(session[u].payload, "branch", "") = "print"
    /\ Get(session[u].payload, "technology", "") = "FDM"
    /\ Get(session[u].payload, "material", "") = "(?) Other material"
    /\ session[u].waiting_text = "other_material"

\* The transitions of user u that render the summary of payload p.
RendersSummaryOf(u, p) ==
    \/ /\ p = session'[u].payload
       /\ \/ \E kv \in SetInputs(u) : kv[1] = "file" /\ OnSet(u, kv[1], kv[2])
          \/ \E t \in Texts :
                /\ session[u].waiting_text = "description"
                /\ shown[u].step # "none"
                /\ OnTextField(u, t)
          \/ \E n \in FileNames :
                /\ session[u].order_id # NoOrder
                /\ FileExt(n) \in AllowedExt
                /\ OnFile(u, n)
    \/ /\ p = session[u].payload
       /\ session[u].order_id # NoOrder
       /\ \E fails \in BOOLEAN : OnSubmit(u, fails)

\* C10: in a print order with technology FDM, the text t sent after "other
\* material" is stored as material_custom in the session payload and in the
\* stored payload, and the attach-file step is shown; afterwards every
\* summary rendered from a payload that holds material_custom = t has the
\* line "Drugoy material: t".
C10_CustomMaterial ==
    [][\A u \in Users :
         /\ \A t \in Texts :
               (AwaitsCustomMaterial(u) /\ shown[u].step # "none" /\ OnTextField(u, t)) =>
                  /\ Get(session'[u].payload, "material_custom", "") = t
                  /\ <<"material_custom", t>> \in orders'[session[u].order_id].payload
                  /\ shown'[u].step = "attach_file"
         /\ \A p \in {session[u].payload, session'[u].payload} :
               (RendersSummaryOf(u, p) /\ HasKey(p, "material_custom")) =>
                  HasLine(shown'[u].summary, "Drugoy material",
                          Get(p, "material_custom", ""))]_vars

C10_witness ==
    \E u \in Users, t \in Texts :
        /\ session[u].order_id # NoOrder
        /\ Get(session[u].payload, "technology", "") = "FDM"
        /\ Get(session[u].payload, "material", "") = "(?) Other material"
        /\ Get(session[u].payload, "material_custom", "") = t
        /\ <<"material_custom", t>> \in orders[session[u].order_id].payload
        /\ shown[u].step = "result"
        /\ HasLine(shown[u].summary, "Drugoy material", t)

\* C11: a text received while waiting_text is unset appends exactly one
\* "in" message with that text to the user's latest order in status draft,
\* new or in_work, or to a dialog order created for the user when there is
\* none; the acknowledgement is sent and the session is unchanged.
C11_DialogText ==
    [][\A u \in Users, t \in Texts :
         (shown[u].step # "none" /\ OnTextDialog(u, t)) =>
            LET active == {i \in 1..Len(orders) :
                              /\ orders[i].user = u
                              /\ orders[i].status \in {"draft", "new", "in_work"}}
                target == IF active = {} THEN Len(orders) + 1
                          ELSE CHOOSE i \in active : \A j \in active : j <= i
            IN /\ messages' = Append(messages, [order |-> target, direction |-> "in", text |-> t])
               /\ IF active = {}
                  THEN /\ Len(orders') = Len(orders) + 1
                       /\ orders'[target].user = u
                       /\ orders'[target].branch = "dialog"
                       /\ \A i \in 1..Len(orders) : orders'[i] = orders[i]
                  ELSE orders' = orders
               /\ shown'[u] = Screen("ack", NoSummary)
               /\ session'[u] = session[u]]_vars

\* A text went to a dialog order created next to the user's finished order.
C11_witness ==
    \E i \in 1..Len(messages), id \in OrderIds :
        /\ messages[i].order = id
        /\ messages[i].direction = "in"
        /\ orders[id].branch = "dialog"
        /\ id > 1
        /\ orders[1].status = "done"

\* C12: whatever the step and the session, pressing the menu button leaves
\* the user's session empty and shows main_menu.
C12_MenuClearsSession ==
    [][\A u \in Users :
         OnNavMenu(u) =>
            /\ session'[u] = Cleared
            /\ shown'[u].step = "main_menu"]_vars

\* The user is at main_menu with an empty session, having left an order with
\* a material chosen.
C12_witness ==
    \E u \in Users, id \in OrderIds :
        /\ session[u] = Cleared
        /\ shown[u].step = "main_menu"
        /\ orders[id].user = u
        /\ orders[id].status = "draft"
        /\ \E v \in PressedMaterials : <<"material", v>> \in orders[id].payload

\* C13: selecting print, scan or idea creates exactly one order, a draft of
\* that branch, and replaces the session: order_id is the new order's id,
\* the payload is {branch}, the history is empty and waiting_text is unset.
C13_BranchEntry ==
    [][\A u \in Users, b \in {"print", "scan", "idea"} :
         OnMenu(u, b) =>
            LET new == Len(orders) + 1
            IN /\ Len(orders') = new
               /\ \A i \in 1..Len(orders) : orders'[i] = orders[i]
               /\ orders'[new].user = u
               /\ orders'[new].branch = b
               /\ orders'[new].status = "draft"
               /\ session'[u].order_id = new
               /\ session'[u].payload = <<<<"branch", b>>>>
               /\ session'[u].history = <<>>
               /\ session'[u].waiting_text = NoWait]_vars

\* A second order was opened while the first one had a technology chosen.
C13_witness ==
    \E u \in Users :
        /\ session[u].order_id = 2
        /\ Len(session[u].payload) = 1
        /\ orders[2].status = "draft"
        /\ \E v \in PressedTech : <<"technology", v>> \in orders[1].payload

\* C14: selecting the about branch, or an about item, creates no order and
\* changes neither the session payload nor any stored order.
C14_AboutTouchesNothing ==
    [][\A u \in Users :
         (OnMenu(u, "about") \/ \E i \in PressedAbout : OnAboutItem(u, i)) =>
            /\ orders' = orders
            /\ session'[u].payload = session[u].payload
            /\ session'[u].order_id = session[u].order_id]_vars

\* An about item is shown to a user whose order has a technology chosen.
C14_witness ==
    \E u \in Users :
        /\ shown[u].step = "about_detail"
        /\ session[u].order_id # NoOrder
        /\ HasKey(session[u].payload, "technology")
        /\ orders[session[u].order_id].payload = json_dumps(session[u].payload)


C16_StoreFailureResetsSession ==
    [][\A u \in Users :
         ( \/ \E b \in {"print", "scan", "idea"} : OnMenuStoreFails(u, b)
           \/ \E kv \in SetInputs(u) : OnSetStoreFails(u, kv[1], kv[2])
           \/ \E at \in {"finalize", "add_order_message"} : OnSubmitStoreFails(u, at) )
         => /\ shown'[u].step \in {"open_failed", "submit_fail"}
            /\ session'[u] = Cleared]_vars


C18_FailedPushAppendsNothing ==
    [][\A u \in Users, raw \in PushTexts, o \in {NoOrder} \cup OrderIds,
          f \in {"", "find_or_create_active_order", "add_order_message"} :
         (strip(raw) # "" /\ InternalSendMessage(TRUE, TRUE, u, raw, o, TRUE, f))
         => /\ messages' = messages
            /\ orders' = orders
            /\ ~reply'.ok
            /\ reply'.status # 200
            /\ reply'.error # ""]_vars

\* C18: a push whose send raised has been answered, while the user has an
\* order it would have gone to.
C18_witness ==
    /\ reply = Response(400, FALSE, "str(exc)")
    /\ \E u \in Users : FindActiveOrder(orders, u) # NoOrder
    /\ \A i \in 1..Len(messages) : messages[i].direction # "out"

\* C19: a push answered with success has appended exactly one out message
\* with the pushed text, to the order named in the request or else to the
\* user's active order (a new dialog order when there is none).
C19_SuccessMeansStored ==
    [][\A u \in Users, raw \in PushTexts, o \in {NoOrder} \cup OrderIds,
          f \in {"", "find_or_create_active_order", "add_order_message"} :
         (InternalSendMessage(TRUE, TRUE, u, raw, o, FALSE, f) /\ reply'.ok)
         => \E target \in 1..Len(orders') :
                /\ o # NoOrder => target = o
                /\ o = NoOrder => orders'[target].user = u
                /\ messages' = Append(messages,
                        [order |-> target, direction |-> "out", text |-> strip(raw)])]_vars


\* C20: get_cfg(k, d) over a readable bot_config returns the stored value of
\* k when k has a row with a non-empty value, and d when k has no row or its
\* value is empty.
C20_TextOrDefault ==
    [][\A k \in ConfigKeys, d \in ConfigDefaults :
         GetCfg(k, d, FALSE)
         => reply'.value =
              IF \E v \in ConfigValues : v # "" /\ <<k, v>> \in botConfig
              THEN CHOOSE v \in ConfigValues : v # "" /\ <<k, v>> \in botConfig
              ELSE d]_vars


C22_ToggleValues ==
    (reply.kind = "toggle" /\ reply.present)
    => /\ reply.stored \in {<<"1">>, <<"t", "r", "u", "e">>, <<"T", "R", "U", "E">>,
                             <<"y", "e", "s">>, <<"O", "n">>} => reply.value
       /\ reply.stored \in {<<"0">>, <<"f", "a", "l", "s", "e">>, <<>>, <<"n", "o">>}
            => ~reply.value

\* C22 as the code has it: true for "1", "true", "TRUE", "yes", "On", false
\* for "0", "false", "no", and the default for a stored "".
C22_ToggleValuesEmptyIsDefault ==
    (reply.kind = "toggle" /\ reply.present)
    => /\ reply.stored \in {<<"1">>, <<"t", "r", "u", "e">>, <<"T", "R", "U", "E">>,
                             <<"y", "e", "s">>, <<"O", "n">>} => reply.value
       /\ reply.stored \in {<<"0">>, <<"f", "a", "l", "s", "e">>, <<"n", "o">>}
            => ~reply.value
       /\ reply.stored = <<>> => reply.value = reply.default

\* C22: the settings were read while the toggle's key is stored with "",
\* and the toggle came out true.
C22_witness ==
    /\ reply.kind = "toggle"
    /\ reply.present
    /\ reply.stored = <<>>
    /\ reply.default
    /\ reply.value
    /\ <<reply.key, <<>>>> \in botConfig

\* C23: the toggle is the default when the key has no row or an empty
\* value, and for a non-empty value it is true exactly for the spellings of
\* "1", "true", "yes", "on" in any letter case.
C23_ToggleDefaultOrMembership ==
    reply.kind = "toggle"
    => reply.value =
         IF ~reply.present \/ reply.stored = <<>> THEN reply.default
         ELSE reply.stored \in {<<"1">>, <<"t", "r", "u", "e">>, <<"T", "R", "U", "E">>,
                                <<"T", "r", "u", "e">>, <<"y", "e", "s">>,
                                <<"O", "n">>, <<"o", "n">>}

\* C23: a toggle without a row was read with the default false.
C23_witness ==
    /\ reply.kind = "toggle"
    /\ ~reply.present
    /\ ~reply.default
    /\ ~reply.value


\* C24: whatever the enabled_menu_* toggles are, a main menu that is sent
\* offers at least one item, and offers about when all four toggles are
\* false.
C24_MenuNeverEmpty ==
    [][\A u \in Users :
         (OnStart(u) \/ OnNavMenu(u))
         => /\ MenuItems(u)' # {}
            /\ (\A b \in {"print", "scan", "idea", "about"} : ~MenuEnabled(b))
                 => "about" \in MenuItems(u)']_vars

\* C24: the main menu is shown while all four toggles are stored as "0".
C24_witness ==
    /\ \A b \in {"print", "scan", "idea", "about"} : ~MenuEnabled(b)
    /\ \E u \in Users : shown[u].step = "main_menu" /\ MenuItems(u) # {}

\* C25: a main menu that is sent does not offer an item whose toggle is
\* false, as long as another item's toggle is true.
C25_DisabledItemNotOffered ==
    [][\A u \in Users :
         (OnStart(u) \/ OnNavMenu(u))
         => \A b \in {"print", "scan", "idea", "about"} :
              (~MenuEnabled(b) /\ \E o \in {"print", "scan", "idea", "about"} : MenuEnabled(o))
              => b \notin MenuItems(u)']_vars


\* C26: a listing of an order with a limit holds rows of that order only,
\* as many as the limit allows, oldest first by creation time, and no row
\* left out was created after a row returned; with at most limit rows it
\* holds them all; and when the rows' creation times differ it is exactly
\* the last rows of the order in insertion order.
C26_ListOldestFirst ==
    reply.kind = "messages"
    => LET rows == reply.rows
           ts == reply.created_at
           Of == {i \in DOMAIN ts : messages[i].order = reply.order}
           Got == {rows[j] : j \in 1..Len(rows)}
       IN /\ Got \subseteq Of
          /\ Cardinality(Got) = Len(rows)
          /\ Len(rows) = IF reply.limit < Cardinality(Of) THEN reply.limit
                          ELSE Cardinality(Of)
          /\ \A j \in 1..Len(rows) : j < Len(rows) => ts[rows[j]] <= ts[rows[j + 1]]
          /\ \A i \in Of \ Got : \A g \in Got : ts[i] <= ts[g]
          /\ (\A i, j \in Of : i < j => ts[i] < ts[j])
               => /\ \A j \in 1..Len(rows) : j < Len(rows) => rows[j] < rows[j + 1]
                  /\ \A i \in Of \ Got : \A g \in Got : i < g

\* C26: an order with two messages created at different times was listed
\* with limit 1, and the later one came back.
C26_witness ==
    /\ reply.kind = "messages"
    /\ Len(messages) = 2
    /\ messages[1].order = reply.order
    /\ messages[2].order = reply.order
    /\ reply.created_at = <<1, 2>>
    /\ reply.limit = 1
    /\ reply.rows = <<2>>


\* The dicts a stored JSON object reads back as: its pairs in any key order.
Orderings(object) ==
    {p \in [1..Cardinality(object) -> object] :
        \A i, j \in 1..Cardinality(object) : i # j => p[i] # p[j]}

\* C27: after a transition that persists the payload, and after a submit
\* that finalizes the session's order, the order's stored summary is
\* payload_summary of the order's stored payload.
C27_SummaryOfStoredPayload ==
    [][\A u \in Users :
         (/\ session[u].order_id # NoOrder
          /\ SetsPayloadField(u) \/ \E f \in BOOLEAN : OnSubmit(u, f))
         => \E p \in Orderings(orders'[session[u].order_id].payload) :
                orders'[session[u].order_id].summary = payload_summary(p)]_vars


\* C28: a selection of a technology, a material, a scan type, an idea type
\* or a file option pushes the step being left onto the session's history,
\* and a back action on a non-empty history pops its last entry and pushes
\* nothing.
C28_ForwardPushesBackPops ==
    [][\A u \in Users :
         /\ (/\ session[u].current_step # NoStep
             /\ \E kv \in SetInputs(u) : OnSet(u, kv[1], kv[2]))
            => session'[u].history = Append(session[u].history, session[u].current_step)
         /\ (session[u].history # <<>> /\ OnNavBack(u))
            => session'[u].history =
                 SubSeq(session[u].history, 1, Len(session[u].history) - 1)]_vars


\* C29: the materials offered for a payload are six for FDM (five named
\* and an "other" last), five for the photopolymer technology (four named
\* and an "other" last), one skip option for any other technology or none;
\* and every payload with the same technology is offered the same.
C29_CatalogByTechnology ==
    reply.kind = "keyboard"
    => LET tech == Get(reply.payload, "technology", "")
           items == reply.materials
           Named == {items[i] : i \in 1..(Len(items) - 1)}
       IN /\ tech = "FDM"
               => /\ Len(items) = 6
                  /\ Cardinality(Named) = 5
                  /\ items[6] = "(?) Other material"
                  /\ Named = {"PET-G", "PLA", "PET-G Carbon", "TPU", "Nylon"}
          /\ tech = "Photopolymer"
               => /\ Len(items) = 5
                  /\ Cardinality(Named) = 4
                  /\ items[5] = "(?) Other resin"
                  /\ Named = {"Standard", "ABS-Like", "TPU-Like", "Nylon-Like"}
          /\ tech \notin {"FDM", "Photopolymer"} => items = <<"Not chosen">>
          /\ \A q \in CatalogPayloads :
                Get(q, "technology", "") = tech => step_keyboard_for_print(q) = items

\* C29: the keyboard was built for a payload with the photopolymer
\* technology and other fields set.
C29_witness ==
    /\ reply.kind = "keyboard"
    /\ Get(reply.payload, "technology", "") = "Photopolymer"
    /\ HasKey(reply.payload, "material")
    /\ Len(reply.materials) = 5


\* C30: callback data the handlers do not recognize (an unknown branch in
\* a menu selection, a malformed set callback, a set callback with an
\* unknown key) leaves the user on the main menu, and raises no error that
\* reaches the dispatcher.
C30_UnrecognizedRendersMainMenu ==
    [][\A u \in Users :
        (\/ \E b \in UnknownBranches : OnMenuUnknown(u, b)
         \/ \E d \in MalformedSetData : OnSetMalformed(u, d)
         \/ \E kv \in UnknownSetInputs : OnSetUnknownKey(u, kv[1], kv[2]))
        => /\ shown'[u].step = "main_menu"
           /\ reply'.kind # "unhandled"]_vars


\* C31: a turn of user u leaves the session of every other user as it was,
\* and leaves every order of another user with its payload, summary and
\* status as they were.
C31_TurnTouchesOwnSessionAndOrders ==
    [][\A u \in TwoUsers :
        UserTurn(u)
        => \A v \in TwoUsers \ {u} :
              /\ session'[v] = session[v]
              /\ \A i \in 1..Len(orders) :
                    orders[i].user = v
                    => /\ orders'[i].payload = orders[i].payload
                       /\ orders'[i].summary = orders[i].summary
                       /\ orders'[i].status = orders[i].status]_vars

\* C31: both users have an order of their own, one already answered and
\* persisted, the other still in its session.
C31_witness ==
    /\ Len(orders) = 2
    /\ orders[1].user # orders[2].user
    /\ \E u \in TwoUsers : session[u].order_id = 2
    /\ orders[1].payload # EmptyObject
    /\ orders[2].payload # EmptyObject



\* C32: when the user had no order in a non-terminal status as the free
\* text and the push without an order id began, the two calls of
\* find_or_create_active_order create at most one order between them, a
\* dialog order of that user, and once both have returned they hold the
\* same order id.
C32_OneDialogOrderForBothCalls ==
    (reply.kind = "calls" /\ ~reply.open)
    => /\ Cardinality(reply.created) <= 1
       /\ \A i \in reply.created : orders[i].branch = "dialog" /\ orders[i].user \in Users
       /\ (\A c \in Callers : reply.pc[c] \in {"found", "stored"})
             => reply.id["on_text"] = reply.id["internal_send_message"]

\* C32: both calls have returned, the user had only a finished order, and
\* one dialog order was created.
C32_witness ==
    /\ reply.kind = "calls"
    /\ ~reply.open
    /\ Len(orders) = 2
    /\ orders[1].status = "done"
    /\ reply.created = {2}
    /\ \A c \in Callers : reply.pc[c] = "stored"
    /\ reply.id["on_text"] = 2
    /\ Len(messages) = 2


\* C33: submit finalizes an order only when every question of its branch
\* has an answer in the payload: technology, material and file for print,
\* the type and a description for scan and idea.
C33_SubmitOnlyWhenAnswered ==
    [][\A u \in Users :
        (session[u].order_id # NoOrder /\ \E fails \in BOOLEAN : OnSubmit(u, fails))
        => LET p == session[u].payload
               branch == Get(p, "branch", "")
           IN /\ branch = "print"
                   => HasKey(p, "technology") /\ HasKey(p, "material") /\ HasKey(p, "file")
              /\ branch = "scan" => HasKey(p, "scan_type") /\ HasKey(p, "description")
              /\ branch = "idea" => HasKey(p, "idea_type") /\ HasKey(p, "description")]_vars


\* C34: a session that awaits a text has an order id, so no free text
\* becomes a payload field of a session without an order.
C34_WaitingOnlyWithOrder ==
    \A u \in Users : session[u].waiting_text # NoWait => session[u].order_id # NoOrder


\* C35: the history of a session never holds one step tag in two
\* consecutive positions, and is never longer than the number of step tags
\* render_step knows.
C35_HistoryWithoutRepeats ==
    \A u \in Users :
        LET history == session[u].history
            StepTags == {"print_tech", "scan_type", "idea_type", "about"}
        IN /\ \A i \in 1..(Len(history) - 1) : history[i] # history[i + 1]
           /\ Len(history) <= Cardinality(StepTags)


\* C36: an admin request answered as sent has pushed the user once and
\* stored one out message on the order; a request for a missing or a
\* canceled order has pushed nobody and stored nothing.
C36_OnePushOneMessage ==
    reply.kind = "admin"
    => /\ reply.status = 200 => reply.pushes = 1 /\ reply.stored = 1
       /\ (~reply.found \/ reply.canceled) => reply.pushes = 0 /\ reply.stored = 0


\* C37: a document received while the session has no order id, or whose
\* extension is not stl, 3mf or obj, adds no order_files row and leaves the
\* session payload and the orders table as they were.
C37_RejectedUploadChangesNothing ==
    [][\A u \in Users, n \in FileNames :
        (/\ OnFile(u, n)
         /\ \/ session[u].order_id = NoOrder
            \/ FileExt(n) \notin {"stl", "3mf", "obj"})
        => /\ files' = files
           /\ session'[u].payload = session[u].payload
           /\ session'[u].order_id = session[u].order_id
           /\ orders' = orders]_vars

\* C37: a document with another extension was refused for a session that
\* has an order with answers in it.
C37_witness ==
    \E u \in Users :
        /\ shown[u].step = "bad_extension"
        /\ session[u].order_id # NoOrder
        /\ HasKey(session[u].payload, "technology")
        /\ files = <<>>

====
